---------------------------- MODULE Spec2Model ----------------------------
(***************************************************************************)
(* A verification model of rscout: the token-bucket RateLimiter, the       *)
(* Fetcher's bounded-concurrency fan-out, the Deduplicator, the heuristic  *)
(* Scorer, the QueryRefiner, the Categorizer and the InteractiveSearch     *)
(* session loop.                                                           *)
(*                                                                         *)
(* Each component has its own specification (SpecLimiter, SpecLone, ...);  *)
(* a specification leaves the variables of the other components at their   *)
(* initial values.                                                         *)
(***************************************************************************)
EXTENDS Integers, Sequences, FiniteSets, TLC

VARIABLES
  \* ---- RateLimiter (src/src/utils/rate-limiter.ts)
  tokens,       \* this.tokens, in units of 1/OneToken token
  lastRefill,   \* this.lastRefill, in clock ticks
  maxTokens,    \* this.maxTokens
  refillRate,   \* this.refillRate, token units per second
  now,          \* Date.now(), in clock ticks
  callerPc,     \* per caller: "idle", or "sleeping" inside acquire()
  wakeAt,       \* per caller: the tick its setTimeout is due
  lastCall,     \* the call made by the last step, with what it returned
  \* ---- Deduplicator.deduplicate as a function (src/src/pipeline/refiner.ts)
  dedupConfig,  \* this.config
  dedupInput,   \* the argument `results`, as it was at the call
  dedupOutput,  \* the returned array
  dedupPc,      \* "ready" before the call, "done" after it
  \* ---- Scorer.scoreAll as a function (src/src/pipeline/scorer.ts)
  scoreConfig,  \* this.config: weights and trustedDomains
  scoreQuery,   \* the argument `query`
  scoreInput,   \* the argument `results`
  scoreOutput,  \* the returned array
  scorePc,      \* "ready" before the call, "done" after it
  \* ---- Fetcher.fetchAll (src/src/pipeline/scorer.ts)
  providers,    \* the argument `providers`, by name
  concurrency,  \* this.concurrency
  retries,      \* this.retries
  cacheEnabled, \* this.cache && this.cacheEnabled
  cacheFiles,   \* FileCache: per provider key, the stored entry if any
  taskPc,       \* per provider task: queued, cache, search, store, settled
  searchCalls,  \* per provider: the calls of provider.search so far
  outcome,      \* per provider: how its task went and what it fetched
  results,      \* fetchAll's local `results`
  errors,       \* fetchAll's local `errors`
  successfulProviders,  \* fetchAll's local `successfulProviders`
  fetchPc,      \* "running", or "returned" once fetchAll has resolved
  \* ---- InteractiveSearch (src/README.md)
  options,      \* this.options: initialQuery and maxDepth, and (enabled)
                \* the providers createProviders makes of options.config
  allResults,   \* this.allResults
  searchHistory,  \* this.searchHistory, a round's results by identity
                  \* (results) and by provider tag (sources)
  selectedTerms,  \* this.selectedTerms
  stack,        \* the calls of searchLoop in progress, innermost last
  searches,     \* the calls of executeSearch so far
  nextOid,      \* the result objects created so far
  doneEntered,  \* /done or /finish has been typed
  roundErrors,  \* result.errors of the last fetchAll of the session
  sessionPc,    \* constructed, running, returned, exited or threw
  returned,     \* what run() resolved with, if it did
  lastStep,     \* the step just taken, with what was typed or fetched
  \* ---- Deduplicator.normalizeUrl as a function (src/src/pipeline/refiner.ts)
  normUrl,      \* the argument `url` at first, then the string returned
  normCalls,    \* the calls of normalizeUrl made on it so far
  \* ---- Categorizer (src/src/pipeline/bm25.ts)
  categories,   \* this.categories
  catInput,     \* the argument `results` of categorize
  catOutput,    \* the array categorize returned
  catEdits,     \* the calls of addCategory and removeCategory so far
  catPc,        \* "ready" before the call of categorize, "done" after it
  \* ---- InteractiveSearch.parseSelection as a function (src/README.md)
  selInput,     \* the argument `input`, its comma-separated parts as characters
  selMax,       \* the argument `max`
  selOutput,    \* the returned array
  selPc,        \* "ready" before the call, "done" after it
  \* ---- QueryRefiner (src/src/pipeline/refiner.ts)
  refQuery,     \* this.originalQuery
  refResults,   \* the argument `results` of extractSuggestions
  refSuggestions,\* what extractSuggestions returned
  refBuilt,     \* the call of buildRefinedQueries made, with what it returned
  refPc,        \* per method, "ready" before its call and "done" after it
  \* ---- BM25Ranker (src/src/pipeline/bm25.ts)
  totalDocs,    \* this.totalDocs
  docFrequency, \* this.docFrequency, a function on the indexed terms
  idfCache,     \* this.idfCache, in units of 1/IdfScale
  avgDocLength, \* this.avgDocLength, as the fraction num / den
  bmArgs,       \* the arguments of the last scoreAll
  bmScored,     \* what the last scoreAll returned
  bmCalls,      \* the calls made on the ranker
  \* ---- Categorizers sharing the module's default list (src/src/pipeline/bm25.ts)
  defaultCategories,\* the array DEFAULT_CATEGORIES of the module, as it is now
  categorizers, \* the Categorizer instances: what each was constructed with, and its own array when it was given one
  sharedCall,   \* the last call on an instance, with what it returned
  sharedEdits   \* the addCategory and removeCategory calls made

limiterVars ==
  <<tokens, lastRefill, maxTokens, refillRate, now, callerPc, wakeAt, lastCall>>
dedupVars == <<dedupConfig, dedupInput, dedupOutput, dedupPc>>
scoreVars == <<scoreConfig, scoreQuery, scoreInput, scoreOutput, scorePc>>
fetchVars ==
  <<providers, concurrency, retries, cacheEnabled, cacheFiles, taskPc,
    searchCalls, outcome, results, errors, successfulProviders, fetchPc>>

sessionVars ==
  <<options, allResults, searchHistory, selectedTerms, stack, searches,
    nextOid, doneEntered, roundErrors, sessionPc, returned, lastStep>>

normVars == <<normUrl, normCalls>>

catVars == <<categories, catInput, catOutput, catEdits, catPc>>

selVars == <<selInput, selMax, selOutput, selPc>>

refVars == <<refQuery, refResults, refSuggestions, refBuilt, refPc>>

bmVars == <<totalDocs, docFrequency, idfCache, avgDocLength, bmArgs, bmScored, bmCalls>>

sharedVars == <<defaultCategories, categorizers, sharedCall, sharedEdits>>

vars ==
  <<limiterVars, dedupVars, scoreVars, fetchVars, sessionVars, normVars,
    catVars, selVars, refVars, bmVars, sharedVars>>

\* The variables each component's actions leave alone
otherThanLimiter ==
  <<dedupVars, scoreVars, fetchVars, sessionVars, normVars, catVars,
    selVars, refVars, bmVars, sharedVars>>
otherThanDedup ==
  <<limiterVars, scoreVars, fetchVars, sessionVars, normVars, catVars,
    selVars, refVars, bmVars, sharedVars>>
otherThanScore ==
  <<limiterVars, dedupVars, fetchVars, sessionVars, normVars, catVars,
    selVars, refVars, bmVars, sharedVars>>
otherThanFetch ==
  <<limiterVars, dedupVars, scoreVars, sessionVars, normVars, catVars,
    selVars, refVars, bmVars, sharedVars>>
otherThanSession ==
  <<limiterVars, dedupVars, scoreVars, fetchVars, normVars, catVars,
    selVars, refVars, bmVars, sharedVars>>
otherThanNorm ==
  <<limiterVars, dedupVars, scoreVars, fetchVars, sessionVars, catVars,
    selVars, refVars, bmVars, sharedVars>>

otherThanCat ==
  <<limiterVars, dedupVars, scoreVars, fetchVars, sessionVars, normVars,
    selVars, refVars, bmVars, sharedVars>>

otherThanSel ==
  <<limiterVars, dedupVars, scoreVars, fetchVars, sessionVars, normVars,
    catVars, refVars, bmVars, sharedVars>>

otherThanRef ==
  <<limiterVars, dedupVars, scoreVars, fetchVars, sessionVars, normVars,
    catVars, selVars, bmVars, sharedVars>>

otherThanBm ==
  <<limiterVars, dedupVars, scoreVars, fetchVars, sessionVars, normVars,
    catVars, selVars, refVars, sharedVars>>
otherThanShared ==
  <<limiterVars, dedupVars, scoreVars, fetchVars, sessionVars, normVars,
    catVars, selVars, refVars, bmVars>>

\* A component no action of the specification at hand touches
DedupAtRest ==
  /\ dedupConfig = [urlNormalization |-> TRUE, contentFingerprint |-> TRUE]
  /\ dedupInput = <<>>
  /\ dedupOutput = <<>>
  /\ dedupPc = "ready"

ScoreAtRest ==
  /\ scoreConfig = [recency |-> 0, domainAuthority |-> 0,
                    keywordRelevance |-> 0]
  /\ scoreQuery = <<>>
  /\ scoreInput = <<>>
  /\ scoreOutput = <<>>
  /\ scorePc = "ready"

FetchAtRest ==
  /\ providers = <<>>
  /\ concurrency = 1
  /\ retries = 0
  /\ cacheEnabled = FALSE
  /\ cacheFiles = <<>>
  /\ taskPc = <<>>
  /\ searchCalls = <<>>
  /\ outcome = <<>>
  /\ results = <<>>
  /\ errors = <<>>
  /\ successfulProviders = <<>>
  /\ fetchPc = "returned"

SessionAtRest ==
  /\ options = [initialQuery |-> <<>>, maxDepth |-> 0, enabled |-> {}]
  /\ allResults = <<>>
  /\ searchHistory = <<>>
  /\ selectedTerms = <<>>
  /\ stack = <<>>
  /\ searches = 0
  /\ nextOid = 0
  /\ doneEntered = FALSE
  /\ roundErrors = <<>>
  /\ sessionPc = "returned"
  /\ returned = <<>>
  /\ lastStep = [op |-> "none", answer |-> "", batch |-> <<>>]

NormAtRest ==
  /\ normUrl = <<>>
  /\ normCalls = 0

CatAtRest ==
  /\ categories = <<>>
  /\ catInput = <<>>
  /\ catOutput = <<>>
  /\ catEdits = 0
  /\ catPc = "done"

SelAtRest ==
  /\ selInput = <<>>
  /\ selMax = 0
  /\ selOutput = <<>>
  /\ selPc = "done"

RefAtRest ==
  /\ refQuery = <<>>
  /\ refResults = <<>>
  /\ refSuggestions = <<>>
  /\ refBuilt = [terms |-> <<>>, strategy |-> "", queries |-> <<>>]
  /\ refPc = [extract |-> "done", build |-> "done"]

BmAtRest ==
  /\ totalDocs = 0
  /\ docFrequency = [t \in {} |-> 0]
  /\ idfCache = [t \in {} |-> 0]
  /\ avgDocLength = [num |-> 0, den |-> 1]
  /\ bmArgs = [op |-> "new", results |-> <<>>, query |-> <<>>,
               rebuilt |-> FALSE]
  /\ bmScored = <<>>
  /\ bmCalls = 0

SharedAtRest ==
  /\ defaultCategories = <<>>
  /\ categorizers = <<>>
  /\ sharedCall = [op |-> "none", on |-> 0, input |-> <<>>, output |-> <<>>,
                   pristine |-> FALSE]
  /\ sharedEdits = 0

Max(a, b) == IF a >= b THEN a ELSE b
Min(a, b) == IF a <= b THEN a ELSE b

(***************************************************************************)
(* RateLimiter                                                             *)
(*                                                                         *)
(* Time is counted in ticks of 1/TicksPerSecond second and tokens in units *)
(* of 1/OneToken token, so that every quantity the code computes in        *)
(* floating point is an exact integer here.                                *)
(***************************************************************************)
OneToken == 4
TicksPerSecond == 2
MaxTime == 6
NumCallers == 2

Callers == 1..NumCallers

\* requestsPerSecond, in token units per second: 0.5, 1 and 2 requests/s.
RequestRates == {OneToken \div 2, OneToken, 2 * OneToken}

NoCall == [op |-> "none", caller |-> 0, ret |-> "none", clamped |-> FALSE]

\* constructor(name, requestsPerSecond)
InitLimiter ==
  /\ refillRate \in RequestRates
  /\ maxTokens = Max(OneToken, refillRate)
  /\ tokens = maxTokens
  /\ now = 0
  /\ lastRefill = now
  /\ callerPc = [c \in Callers |-> "idle"]
  /\ wakeAt = [c \in Callers |-> 0]
  /\ lastCall = NoCall

LimiterAtRest == InitLimiter /\ refillRate = OneToken

\* refill(): elapsed * refillRate, before the clamp
TokensToAdd == ((now - lastRefill) * refillRate) \div TicksPerSecond

RefilledNoClamp == tokens + TokensToAdd
\* refill(): the new value of this.tokens
Refilled == Min(maxTokens, tokens + TokensToAdd)

\* Whether refill()'s Math.min takes maxTokens over a larger sum
Clamps == tokens + TokensToAdd > maxTokens

WaitTimeZero(t) == 0
\* acquire(): waitTime = ((1 - tokens) / refillRate) * 1000, in ticks; the
\* timer is due no earlier than that, so a fraction of a tick rounds up.
WaitTime(t) ==
  LET num == (OneToken - t) * TicksPerSecond
  IN  (num + refillRate - 1) \div refillRate

\* acquire(), up to its return or its await this.sleep(waitTime)
Acquire(c) ==
  /\ callerPc[c] = "idle"
  /\ lastRefill' = now
  /\ IF Refilled >= OneToken
       THEN /\ tokens' = Refilled - OneToken
            /\ lastCall' = [op |-> "acquire", caller |-> c, ret |-> "returned",
                            clamped |-> Clamps]
            /\ UNCHANGED <<callerPc, wakeAt>>
       ELSE /\ tokens' = Refilled
            /\ callerPc' = [callerPc EXCEPT ![c] = "sleeping"]
            /\ wakeAt' = [wakeAt EXCEPT ![c] = now + WaitTime(Refilled)]
            /\ lastCall' = [op |-> "acquire", caller |-> c, ret |-> "suspended",
                            clamped |-> Clamps]
  /\ UNCHANGED <<maxTokens, refillRate, now>>
  /\ UNCHANGED otherThanLimiter

\* acquire(), from the timer firing to its return: refill(); this.tokens -= 1
Resume(c) ==
  /\ callerPc[c] = "sleeping"
  /\ now >= wakeAt[c]
  /\ lastRefill' = now
  /\ tokens' = Refilled - OneToken
  /\ callerPc' = [callerPc EXCEPT ![c] = "idle"]
  /\ lastCall' = [op |-> "resume", caller |-> c, ret |-> "returned",
                  clamped |-> Clamps]
  /\ UNCHANGED <<maxTokens, refillRate, now, wakeAt>>
  /\ UNCHANGED otherThanLimiter

TryAcquireNoRefill(c) ==
  /\ callerPc[c] = "idle"
  /\ IF tokens >= OneToken
       THEN /\ tokens' = tokens - OneToken
            /\ lastCall' = [op |-> "tryAcquire", caller |-> c, ret |-> "true",
                            clamped |-> FALSE]
       ELSE /\ tokens' = tokens
            /\ lastCall' = [op |-> "tryAcquire", caller |-> c, ret |-> "false",
                            clamped |-> FALSE]
  /\ UNCHANGED <<lastRefill, maxTokens, refillRate, now, callerPc, wakeAt>>
  /\ UNCHANGED otherThanLimiter
\* tryAcquire()
TryAcquire(c) ==
  /\ callerPc[c] = "idle"
  /\ lastRefill' = now
  /\ IF Refilled >= OneToken
       THEN /\ tokens' = Refilled - OneToken
            /\ lastCall' = [op |-> "tryAcquire", caller |-> c, ret |-> "true",
                            clamped |-> Clamps]
       ELSE /\ tokens' = Refilled
            /\ lastCall' = [op |-> "tryAcquire", caller |-> c, ret |-> "false",
                            clamped |-> Clamps]
  /\ UNCHANGED <<maxTokens, refillRate, now, callerPc, wakeAt>>
  /\ UNCHANGED otherThanLimiter

\* getAvailableTokens()
GetAvailableTokens(c) ==
  /\ callerPc[c] = "idle"
  /\ lastRefill' = now
  /\ tokens' = Refilled
  /\ lastCall' = [op |-> "getAvailableTokens", caller |-> c, ret |-> "tokens",
                  clamped |-> Clamps]
  /\ UNCHANGED <<maxTokens, refillRate, now, callerPc, wakeAt>>
  /\ UNCHANGED otherThanLimiter

\* The wall clock advances; a pending timer keeps it running past MaxTime.
Tick ==
  /\ \/ now < MaxTime
     \/ \E c \in Callers : callerPc[c] = "sleeping" /\ now < wakeAt[c]
  /\ now' = now + 1
  /\ lastCall' = [NoCall EXCEPT !.op = "tick"]
  /\ UNCHANGED <<tokens, lastRefill, maxTokens, refillRate, callerPc, wakeAt>>
  /\ UNCHANGED otherThanLimiter

\* Calls are issued up to MaxTime; calls already suspended run to their end.
LimiterCall(c) ==
  /\ now <= MaxTime
  /\ \/ Acquire(c)
     \/ TryAcquire(c)
     \/ GetAvailableTokens(c)

NextLimiter ==
  \/ \E c \in Callers : LimiterCall(c)
  \/ \E c \in Callers : Resume(c)
  \/ Tick

\* The limiter just constructed; the rest of the program idle.
StartLimiter ==
  InitLimiter /\ DedupAtRest /\ ScoreAtRest /\ FetchAtRest /\ SessionAtRest
    /\ NormAtRest
    /\ CatAtRest
    /\ SelAtRest
    /\ RefAtRest
    /\ BmAtRest
    /\ SharedAtRest

\* Several callers share one limiter.
SpecLimiter ==
  /\ StartLimiter
  /\ [][NextLimiter]_vars

\* A lone caller: one flow of control, which a sleeping acquire() suspends.
NextLone ==
  \/ LimiterCall(1)
  \/ Resume(1)
  \/ Tick

\* The event loop fires a due timer, and the clock does not stop.
SpecLone ==
  /\ StartLimiter
  /\ [][NextLone]_vars /\ WF_vars(Tick) /\ WF_vars(Resume(1))

(***************************************************************************)
(* Strings                                                                 *)
(*                                                                         *)
(* A text is the sequence of its whitespace-separated tokens, a URL the    *)
(* record of its components.  Case and order of strings are given by the   *)
(* tables below.                                                           *)
(***************************************************************************)
\* String.prototype.toLowerCase on the tokens the model uses
ToLower(w) ==
  CASE w = "TypeScript" -> "typescript"
    [] w = "Guide"      -> "guide"
    [] w = "React"      -> "react"
    [] w = "WWW"        -> "www"
    [] w = "Example"    -> "example"
    [] w = "HTTPS"      -> "https"
    [] w = "Not-A-Url"  -> "not-a-url"
    [] w = "API"        -> "api"
    [] w = "Docs"       -> "docs"
    [] w = "Intro"      -> "intro"
    [] w = "Node"       -> "node"
    [] OTHER            -> w

LowerAll(text) == [i \in 1..Len(text) |-> ToLower(text[i])]

\* The lower-case words of the model in lexicographic (code unit) order
Vocab ==
  <<"a", "guide", "intro", "node", "of", "react", "the", "tutorial",
    "typescript">>

\* Array.prototype.sort's default order on words
Rank(w) == CHOOSE i \in 1..Len(Vocab) : Vocab[i] = w

\* Tokens made only of characters outside [\w\s]
Punctuation == {"!", ":"}

(***************************************************************************)
(* URLs                                                                    *)
(*                                                                         *)
(* ok = FALSE is a string new URL() rejects, kept whole in raw.  Otherwise *)
(* the string is scheme://host/path{/}?query#hash with host a sequence of  *)
(* labels, path a sequence of segments followed by `slashes` slashes and   *)
(* query a sequence of parameter names with values.                        *)
(***************************************************************************)
BadUrl(raw) ==
  [ok |-> FALSE, raw |-> raw, scheme |-> "", host |-> <<>>, path |-> <<>>,
   slashes |-> 0, query |-> <<>>, hash |-> ""]

Url(scheme, host, path, slashes, query, hash) ==
  [ok |-> TRUE, raw |-> "", scheme |-> scheme, host |-> host, path |-> path,
   slashes |-> slashes, query |-> query, hash |-> hash]

\* new URL(url): the scheme and the host come out in lower case and an empty
\* path comes out as "/"
ParseUrl(u) ==
  [u EXCEPT !.scheme = ToLower(u.scheme),
            !.host = LowerAll(u.host),
            !.slashes = IF u.path = <<>> /\ u.slashes = 0 THEN 1 ELSE u.slashes]

\* normalizeUrl: trackingParams
TrackingParams ==
  {"utm_source", "utm_medium", "utm_campaign", "utm_term", "utm_content",
   "fbclid", "gclid", "ref", "source", "mc_eid", "mc_cid"}

\* The parameter names of the model in the order URLSearchParams.sort() gives
ParamOrder == <<"fbclid", "id", "page", "utm_source">>

\* parsed.searchParams.sort(): by name, stable
SortParams(q) ==
  LET RECURSIVE Go(_)
      Go(i) == IF i > Len(ParamOrder) THEN <<>>
               ELSE SelectSeq(q, LAMBDA p : p.k = ParamOrder[i]) \o Go(i + 1)
  IN  Go(1)

\* Deduplicator.normalizeUrl
NormalizeUrl(url) ==
  IF ~url.ok THEN BadUrl(ToLower(url.raw))
  ELSE
    LET parsed == ParseUrl(url)
        kept == SelectSeq(parsed.query, LAMBDA p : p.k \notin TrackingParams)
        lower == LowerAll(parsed.host)
        hostname == IF Len(lower) > 1 /\ lower[1] = "www"
                      THEN Tail(lower) ELSE lower
        \* pathname.length > 1 && pathname.endsWith('/')
        pathLen == Len(parsed.path) + parsed.slashes
    IN  Url(parsed.scheme, hostname, parsed.path,
            IF pathLen > 1 /\ parsed.slashes > 0
              THEN parsed.slashes - 1 ELSE parsed.slashes,
            SortParams(kept), "")

(***************************************************************************)
(* Content fingerprint                                                     *)
(***************************************************************************)
\* [w1, w2, w3].sort()
Sort3(a, b, c) ==
  LET lo == Min(Rank(a), Min(Rank(b), Rank(c)))
      hi == Max(Rank(a), Max(Rank(b), Rank(c)))
      mid == Rank(a) + Rank(b) + Rank(c) - lo - hi
  IN  <<Vocab[lo], Vocab[mid], Vocab[hi]>>

\* Deduplicator.fingerprint.  The texts of the model have at most 10
\* trigrams, so slice(0, 10) of the sorted trigrams keeps them all and the
\* joined string is given by their set.
Fingerprint(text) ==
  LET cleaned == SelectSeq(LowerAll(text), LAMBDA w : w \notin Punctuation)
      words == SelectSeq(cleaned, LAMBDA w : Len(w) > 2)
  IN  IF Len(words) < 3
        THEN [cleaned |-> cleaned, trigrams |-> {}]
        ELSE [cleaned |-> <<>>,
              trigrams |-> {Sort3(words[i], words[i + 1], words[i + 2]) :
                              i \in 1..(Len(words) - 2)}]

(***************************************************************************)
(* Search results                                                          *)
(*                                                                         *)
(* metadata is [defined, map]: undefined, or an object given as a function *)
(* from its keys to values; a value is [arr, v]: an array of strings v, or *)
(* (arr = FALSE) the one string v[1].  oid is the object's identity.       *)
(***************************************************************************)
NoMetadata == [defined |-> FALSE, map |-> <<>>]
Metadata(map) == [defined |-> TRUE, map |-> map]
Str(s) == [arr |-> FALSE, v |-> <<s>>]
Arr(v) == [arr |-> TRUE, v |-> v]

\* { ...a, ...b }
Spread(a, b) ==
  [k \in (DOMAIN a.map) \cup (DOMAIN b.map) |->
     IF k \in DOMAIN b.map THEN b.map[k] ELSE a.map[k]]

SearchResult(oid, url, title, snippet, source, timestamp, metadata) ==
  [oid |-> oid, url |-> url, title |-> title, snippet |-> snippet,
   source |-> source, timestamp |-> timestamp, metadata |-> metadata]

WithOid(r, oid) == [r EXCEPT !.oid = oid]

ExamplePage ==
  Url("https", <<"example", "com">>, <<"page">>, 0, <<>>, "")
ExamplePageTracked ==
  Url("HTTPS", <<"WWW", "Example", "com">>, <<"page">>, 1,
      <<[k |-> "utm_source", v |-> "google"]>>, "top")
GithubPage ==
  Url("https", <<"github", "com">>, <<"typescript">>, 0,
      <<[k |-> "page", v |-> "2"], [k |-> "id", v |-> "1"]>>, "")

\* The results the providers of the model can return (timestamps in days
\* before now).  1 and 2 are one page under two spellings, 4 and 5 share an
\* unparseable URL up to case, 3 stands alone.
ResultPool ==
  <<SearchResult(0, ExamplePageTracked,
                 <<"TypeScript", "Guide", "!">>, <<"intro", "of", "react">>,
                 "brave", 0, Metadata([rank |-> Str("1")])),
    SearchResult(0, ExamplePage,
                 <<"typescript", "guide">>, <<"intro", "of", "react">>,
                 "duckduckgo", 73, Metadata([rank |-> Str("7"),
                                             lang |-> Str("en")])),
    SearchResult(0, GithubPage,
                 <<"React", "tutorial">>, <<"react", "node">>,
                 "duckduckgo", -73, NoMetadata),
    SearchResult(0, BadUrl("Not-A-Url"),
                 <<"the", "node", "guide">>, <<>>,
                 "rss", 730, NoMetadata),
    SearchResult(0, BadUrl("not-a-url"),
                 <<"the", "node", "guide">>, <<>>,
                 "serp", 365, Metadata([sources |-> Str("feed")]))>>

PoolIds == 1..Len(ResultPool)

(***************************************************************************)
(* Deduplicator                                                            *)
(***************************************************************************)
\* DeduplicationConfig: urlNormalization, contentFingerprint
DedupConfigs == [urlNormalization : BOOLEAN, contentFingerprint : BOOLEAN]
DefaultDedupConfig == [urlNormalization |-> TRUE, contentFingerprint |-> TRUE]

\* Deduplicator.generateKey: the parts of the joined string
GenerateKey(cfg, r) ==
  [url |-> IF cfg.urlNormalization THEN NormalizeUrl(r.url) ELSE r.url,
   fp  |-> IF cfg.contentFingerprint
             THEN Fingerprint(r.title \o r.snippet)
             ELSE [cleaned |-> <<>>, trigrams |-> {}]]

\* deduplicate, the else branch: the survivor's metadata after it absorbed
\* the duplicate `dup`
MergeDuplicate(existing, dup) ==
  LET merged == Spread(existing.metadata, dup.metadata)
      \* !existing.metadata?.['sources']: absent, or the empty string
      noSources == \/ "sources" \notin DOMAIN merged
                   \/ (~merged["sources"].arr /\ merged["sources"].v = <<"">>)
      withOwn == IF noSources
                   THEN [k \in (DOMAIN merged) \cup {"sources"} |->
                           IF k = "sources" THEN Arr(<<existing.source>>)
                           ELSE merged[k]]
                   ELSE merged
      pushed == IF withOwn["sources"].arr
                  THEN [withOwn EXCEPT !["sources"] =
                          Arr(Append(withOwn["sources"].v, dup.source))]
                  ELSE withOwn
  IN  [existing EXCEPT !.metadata = Metadata(pushed)]

\* The position in objs (among those of keep) whose key is `key`, or 0
SeenAt(cfg, objs, keep, key) ==
  IF \E i \in 1..Len(keep) : GenerateKey(cfg, objs[keep[i]]) = key
    THEN keep[CHOOSE i \in 1..Len(keep) :
                GenerateKey(cfg, objs[keep[i]]) = key]
    ELSE 0

DedupStepKeepLast(cfg, st, j) ==
  LET at == SeenAt(cfg, st.objs, st.keep, GenerateKey(cfg, st.objs[j]))
  IN  IF at = 0
        THEN [st EXCEPT !.keep = Append(st.keep, j)]
        ELSE [st EXCEPT !.keep =
                Append(SelectSeq(st.keep, LAMBDA i : i # at), j)]
\* deduplicate: one turn of the for loop, on the result at position j.
\* objs are the objects of the input array, which the loop changes in place;
\* keep are the positions pushed to `unique`.
DedupStep(cfg, st, j) ==
  LET at == SeenAt(cfg, st.objs, st.keep, GenerateKey(cfg, st.objs[j]))
  IN  IF at = 0
        THEN [st EXCEPT !.keep = Append(st.keep, j)]
        ELSE [st EXCEPT !.objs[at] = MergeDuplicate(st.objs[at], st.objs[j])]

RECURSIVE DedupLoop(_, _, _)
DedupLoop(cfg, st, j) ==
  IF j > Len(st.objs) THEN st
  ELSE DedupLoop(cfg, DedupStep(cfg, st, j), j + 1)

\* Deduplicator.deduplicate(results): the returned array `unique`
Deduplicate(cfg, input) ==
  LET st == DedupLoop(cfg, [objs |-> input, keep |-> <<>>], 1)
  IN  [i \in 1..Len(st.keep) |-> st.objs[st.keep[i]]]

\* The input array's objects after deduplicate(results) returned
DeduplicateInput(cfg, input) ==
  DedupLoop(cfg, [objs |-> input, keep |-> <<>>], 1).objs

MaxInput == 3

\* The arrays of at most MaxInput results handed to deduplicate: any results
\* of the pool in any order, each array element an object of its own
RECURSIVE PoolSeqs(_)
PoolSeqs(n) ==
  IF n = 0 THEN {<<>>}
  ELSE LET shorter == PoolSeqs(n - 1)
       IN  shorter \cup {Append(q, p) : q \in {x \in shorter : Len(x) = n - 1},
                                        p \in PoolIds}

Objects(ids) == [i \in 1..Len(ids) |-> WithOid(ResultPool[ids[i]], i)]

InitDedup ==
  /\ dedupConfig \in DedupConfigs
  /\ dedupInput \in {Objects(ids) : ids \in PoolSeqs(MaxInput)}
  /\ dedupOutput = <<>>
  /\ dedupPc = "ready"

\* const unique = deduplicator.deduplicate(results)
DeduplicateCall ==
  /\ dedupPc = "ready"
  /\ dedupOutput' = Deduplicate(dedupConfig, dedupInput)
  /\ dedupPc' = "done"
  /\ UNCHANGED <<dedupConfig, dedupInput>>
  /\ UNCHANGED otherThanDedup

NextDedup == DeduplicateCall

\* A deduplicator just constructed and about to be called.
StartDedup ==
  InitDedup /\ LimiterAtRest /\ ScoreAtRest /\ FetchAtRest /\ SessionAtRest
    /\ NormAtRest
    /\ CatAtRest
    /\ SelAtRest
    /\ RefAtRest
    /\ BmAtRest
    /\ SharedAtRest

SpecDedup ==
  /\ StartDedup
  /\ [][NextDedup]_vars

(***************************************************************************)
(* Deduplicator.normalizeUrl on its own                                    *)
(*                                                                         *)
(* normalizeUrl is applied to a string, then to what it returned.          *)
(***************************************************************************)
MaxSlashes == 2
MaxNormalizeCalls == 2

\* The strings handed to normalizeUrl
UrlInputs ==
  {BadUrl("Not-A-Url"), BadUrl("not-a-url")}
    \cup {Url(scheme, host, path, slashes, query, hash) :
            scheme \in {"https", "HTTPS"},
            host \in {<<"example", "com">>, <<"WWW", "Example", "com">>,
                      <<"www", "www", "example", "com">>},
            path \in {<<>>, <<"page">>},
            slashes \in 0..MaxSlashes,
            query \in {<<>>, <<[k |-> "utm_source", v |-> "google"]>>,
                       <<[k |-> "page", v |-> "2"], [k |-> "id", v |-> "1"]>>},
            hash \in {"", "top"}}

InitNorm ==
  /\ normUrl \in UrlInputs
  /\ normCalls = 0

\* normalized = deduplicator.normalizeUrl(normalized)
NormalizeUrlCall ==
  /\ normCalls < MaxNormalizeCalls
  /\ normUrl' = NormalizeUrl(normUrl)
  /\ normCalls' = normCalls + 1
  /\ UNCHANGED otherThanNorm

NextNorm == NormalizeUrlCall

\* A string about to be normalized.
StartNorm ==
  InitNorm /\ LimiterAtRest /\ DedupAtRest /\ ScoreAtRest /\ FetchAtRest
    /\ SessionAtRest
    /\ CatAtRest
    /\ SelAtRest
    /\ RefAtRest
    /\ BmAtRest
    /\ SharedAtRest

SpecNorm ==
  /\ StartNorm
  /\ [][NextNorm]_vars

(***************************************************************************)
(* Scorer                                                                  *)
(*                                                                         *)
(* Scores are in units of 1/ScoreScale and weights in units of             *)
(* 1/WeightScale, so a total score is in units of 1/(ScoreScale *          *)
(* WeightScale).  A timestamp is the result's age in days (negative: in    *)
(* the future).                                                            *)
(***************************************************************************)
ScoreScale == 1000
WeightScale == 10
DaysPerYear == 365
MaxScoreInput == 2

\* ScoringWeightsSchema: each weight is a number of [0, 1]
WeightChoices == {0, 2, 3, 5, WeightScale}
ScoringWeights ==
  [recency : WeightChoices, domainAuthority : WeightChoices,
   keywordRelevance : WeightChoices]
DefaultWeights == [recency |-> 3, domainAuthority |-> 2, keywordRelevance |-> 5]

\* ScoringConfigSchema: the default trustedDomains
TrustedDomains ==
  {<<"wikipedia", "org">>, <<"github", "com">>,
   <<"developer", "mozilla", "org">>, <<"stackoverflow", "com">>}

\* Scorer.domainScore: qualityDomains
QualityDomains ==
  {<<"nature", "com">>, <<"science", "org">>, <<"arxiv", "org">>,
   <<"medium", "com">>, <<"dev", "to">>, <<"hackernews", "com">>,
   <<"techcrunch", "com">>, <<"wired", "com">>, <<"arstechnica", "com">>}

\* The queries scored against
Queries ==
  {<<>>, <<"a">>, <<"react">>, <<"TypeScript", "Guide">>,
   <<"react", "node">>}

\* Scorer.recencyScore: Math.max(0.1, 1 - daysSince / 365)
RecencyScore(timestamp) ==
  Max(ScoreScale \div 10,
      ScoreScale - (timestamp * ScoreScale) \div DaysPerYear)

\* hostname.replace('www.', ''): the first "www." of the host name goes
DropFirstWww(host) ==
  IF \E i \in 1..(Len(host) - 1) : host[i] = "www"
    THEN LET at == CHOOSE i \in 1..(Len(host) - 1) :
                     /\ host[i] = "www"
                     /\ \A k \in 1..(i - 1) : host[k] # "www"
         IN  [i \in 1..(Len(host) - 1) |->
                IF i < at THEN host[i] ELSE host[i + 1]]
    ELSE host

\* hostname === domain || hostname.endsWith('.' + domain)
HostIsOrEndsWith(host, domain) ==
  /\ Len(host) >= Len(domain)
  /\ SubSeq(host, Len(host) - Len(domain) + 1, Len(host)) = domain

\* Scorer.domainScore
DomainScore(url) ==
  IF ~url.ok THEN (3 * ScoreScale) \div 10
  ELSE
    LET hostname == DropFirstWww(ParseUrl(url).host)
    IN  IF \E t \in TrustedDomains : HostIsOrEndsWith(hostname, t)
          THEN ScoreScale
        ELSE IF Len(hostname) > 1 /\ hostname[Len(hostname)] \in {"gov", "edu"}
          THEN (9 * ScoreScale) \div 10
        ELSE IF \E q \in QualityDomains : HostIsOrEndsWith(hostname, q)
          THEN (8 * ScoreScale) \div 10
        ELSE ScoreScale \div 2

\* Scorer.tokenize
ScorerTokenize(text) ==
  SelectSeq(LowerAll(text), LAMBDA w : w \notin Punctuation /\ Len(w) > 2)

Includes(terms, term) == \E i \in 1..Len(terms) : terms[i] = term

\* a.includes(b) on texts whose tokens are not parts of one another
TextIncludes(a, b) ==
  \E off \in 0..(Len(a) - Len(b)) : SubSeq(a, off + 1, off + Len(b)) = b

\* Scorer.relevanceScore
RelevanceScore(result, query) ==
  LET queryTerms == ScorerTokenize(query)
      titleTerms == ScorerTokenize(result.title)
      snippetTerms == ScorerTokenize(result.snippet)
      n == Len(queryTerms)
      titleMatches ==
        Cardinality({i \in 1..n : Includes(titleTerms, queryTerms[i])})
      snippetMatches ==
        Cardinality({i \in 1..n : Includes(snippetTerms, queryTerms[i])})
      combinedScore ==
        (titleMatches * 6 * ScoreScale) \div (10 * n)
          + (snippetMatches * 4 * ScoreScale) \div (10 * n)
  IN  IF n = 0 THEN ScoreScale \div 2
      ELSE IF TextIncludes(LowerAll(result.title), LowerAll(query))
        THEN Min(ScoreScale, combinedScore + (2 * ScoreScale) \div 10)
      ELSE combinedScore

\* Scorer.score: totalScore
TotalScore(config, result, query) ==
  RecencyScore(result.timestamp) * config.recency
    + DomainScore(result.url) * config.domainAuthority
    + RelevanceScore(result, query) * config.keywordRelevance

\* Scorer.score: { ...result, score: totalScore }
Score(config, result, query) ==
  [oid |-> result.oid, url |-> result.url, title |-> result.title,
   snippet |-> result.snippet, source |-> result.source,
   timestamp |-> result.timestamp, metadata |-> result.metadata,
   score |-> TotalScore(config, result, query)]

\* scored.sort((a, b) => b.score - a.score): stable, descending
RECURSIVE SortByScore(_)
SortByScore(scored) ==
  IF Len(scored) <= 1 THEN scored
  ELSE LET rest == SortByScore(SubSeq(scored, 1, Len(scored) - 1))
           last == scored[Len(scored)]
           ahead == Cardinality({i \in 1..Len(rest) :
                                   rest[i].score >= last.score})
       IN  SubSeq(rest, 1, ahead) \o <<last>>
             \o SubSeq(rest, ahead + 1, Len(rest))

\* Scorer.scoreAll
ScoreAll(config, input, query) ==
  SortByScore([i \in 1..Len(input) |-> Score(config, input[i], query)])

InitScore ==
  /\ scoreConfig \in ScoringWeights
  /\ scoreQuery \in Queries
  /\ scoreInput \in {Objects(ids) : ids \in PoolSeqs(MaxScoreInput)}
  /\ scoreOutput = <<>>
  /\ scorePc = "ready"

\* const scored = scorer.scoreAll(results, query)
ScoreAllCall ==
  /\ scorePc = "ready"
  /\ scoreOutput' = ScoreAll(scoreConfig, scoreInput, scoreQuery)
  /\ scorePc' = "done"
  /\ UNCHANGED <<scoreConfig, scoreQuery, scoreInput>>
  /\ UNCHANGED otherThanScore

NextScore == ScoreAllCall

\* A scorer just constructed and about to be called.
StartScore ==
  InitScore /\ LimiterAtRest /\ DedupAtRest /\ FetchAtRest /\ SessionAtRest
    /\ NormAtRest
    /\ CatAtRest
    /\ SelAtRest
    /\ RefAtRest
    /\ BmAtRest
    /\ SharedAtRest

SpecScore ==
  /\ StartScore
  /\ [][NextScore]_vars

(***************************************************************************)
(* Fetcher                                                                 *)
(*                                                                         *)
(* One fetchAll(providers, query, options).  A provider task is the        *)
(* function handed to limit(): it is queued until p-limit starts it, then  *)
(* awaits cache.get, provider.search (once per attempt of p-retry) and     *)
(* cache.set, and settles.                                                 *)
(***************************************************************************)
DefaultConcurrency == 3
DefaultRetries == 2

\* createProviders: the providers in the order it pushes them
ProviderNames == <<"duckduckgo", "brave", "rss", "serp">>

\* What a provider's search resolves to when it finds something: the
\* results of the pool that carry its tag
Answer(name) ==
  LET RECURSIVE Go(_)
      Go(i) == IF i > Len(ResultPool) THEN <<>>
               ELSE (IF ResultPool[i].source = name
                       THEN <<ResultPool[i]>> ELSE <<>>) \o Go(i + 1)
  IN  Go(1)

\* JSON.stringify of a result: the Date becomes its ISO string
ToJson(r) ==
  [url |-> r.url, title |-> r.title, snippet |-> r.snippet,
   source |-> r.source, timestamp |-> <<"iso", r.timestamp>>,
   metadata |-> r.metadata]

\* fetchFromProvider: { ...r, timestamp: new Date(r.timestamp) }
Revive(j) ==
  SearchResult(0, j.url, j.title, j.snippet, j.source, j.timestamp[2],
               j.metadata)

\* A cache file: present, with (isArray) a `value` that is an array of
\* objects and so can be mapped over
NoEntry == [present |-> FALSE, isArray |-> TRUE, value |-> <<>>]
\* FileCache.set: the entry written for `value`
Entry(value) ==
  [present |-> TRUE, isArray |-> TRUE,
   value |-> [i \in 1..Len(value) |-> ToJson(value[i])]]
\* A file that parses as JSON, is not expired, and whose `value` is truthy
\* but no array of objects, such as { timestamp, value: "x" }
CorruptEntry == [present |-> TRUE, isArray |-> FALSE, value |-> <<>>]

NoOutcome == [kind |-> "none", fetched |-> <<>>, cacheSet |-> FALSE]

Names(n) == SubSeq(ProviderNames, 1, n)
NameSet == {ProviderNames[i] : i \in 1..Len(ProviderNames)}
Tasks == {providers[i] : i \in 1..Len(providers)}

\* A cache directory left by earlier runs: entries of some providers, each
\* written by FileCache.set from a non-empty answer
CacheDirs ==
  {[n \in NameSet |-> IF n \in have THEN Entry(Answer(n)) ELSE NoEntry] :
     have \in {{}, {"brave"}, {"duckduckgo", "rss"}}}

\* new Fetcher(config); fetchAll(providers, query, options) up to
\* providers.map(...): every task is handed to limit()
InitFetch ==
  /\ providers \in {Names(n) : n \in 0..Len(ProviderNames)}
  /\ concurrency \in 1..DefaultConcurrency
  /\ retries \in {0, DefaultRetries}
  /\ cacheEnabled \in BOOLEAN
  /\ cacheFiles \in CacheDirs
  \* without a cache there is no directory to tell apart
  /\ ~cacheEnabled => \A n \in NameSet : ~cacheFiles[n].present
  \* the runs with a cache leave the last provider out
  /\ cacheEnabled => Len(providers) < Len(ProviderNames)
  /\ taskPc = [n \in NameSet |-> "queued"]
  /\ searchCalls = [n \in NameSet |-> 0]
  /\ outcome = [n \in NameSet |-> NoOutcome]
  /\ results = <<>>
  /\ errors = <<>>
  /\ successfulProviders = <<>>
  /\ fetchPc = "running"

\* p-limit's activeCount: the tasks started and not settled
Running == {n \in Tasks : taskPc[n] \in {"cache", "search", "store"}}

\* The position of a provider in the argument
IndexOf(n) == CHOOSE i \in 1..Len(providers) : providers[i] = n

\* fetchAll, the try branch after the await: push the results and the name
Succeed(n, kind, fetched, didSet) ==
  /\ results' = results \o fetched
  /\ successfulProviders' = Append(successfulProviders, n)
  /\ outcome' = [outcome EXCEPT ![n] =
                   [kind |-> kind, fetched |-> fetched, cacheSet |-> didSet]]
  /\ taskPc' = [taskPc EXCEPT ![n] = "settled"]
  /\ UNCHANGED errors

\* fetchAll, the catch branch: push a ProviderError tagged with the name
Fail(n) ==
  /\ errors' = Append(errors, [provider |-> n, message |-> "search failed"])
  /\ outcome' = [outcome EXCEPT ![n] =
                   [kind |-> "failed", fetched |-> <<>>, cacheSet |-> FALSE]]
  /\ taskPc' = [taskPc EXCEPT ![n] = "settled"]
  /\ UNCHANGED <<results, successfulProviders>>

StartTaskUnbounded(n) ==
  /\ fetchPc = "running"
  /\ n \in Tasks
  /\ taskPc[n] = "queued"
  /\ \A m \in Tasks : IndexOf(m) < IndexOf(n) => taskPc[m] # "queued"
  /\ IF cacheEnabled
       THEN /\ taskPc' = [taskPc EXCEPT ![n] = "cache"]
            /\ UNCHANGED searchCalls
       ELSE /\ taskPc' = [taskPc EXCEPT ![n] = "search"]
            /\ searchCalls' = [searchCalls EXCEPT ![n] = 1]
  /\ UNCHANGED <<providers, concurrency, retries, cacheEnabled, cacheFiles,
                 outcome, results, errors, successfulProviders, fetchPc>>
  /\ UNCHANGED otherThanFetch
\* p-limit starts the oldest queued task while fewer than `concurrency` run;
\* the task runs to its first await: cache.get, or else provider.search
StartTask(n) ==
  /\ fetchPc = "running"
  /\ n \in Tasks
  /\ taskPc[n] = "queued"
  /\ \A m \in Tasks : IndexOf(m) < IndexOf(n) => taskPc[m] # "queued"
  /\ Cardinality(Running) < concurrency
  /\ IF cacheEnabled
       THEN /\ taskPc' = [taskPc EXCEPT ![n] = "cache"]
            /\ UNCHANGED searchCalls
       ELSE /\ taskPc' = [taskPc EXCEPT ![n] = "search"]
            /\ searchCalls' = [searchCalls EXCEPT ![n] = 1]
  /\ UNCHANGED <<providers, concurrency, retries, cacheEnabled, cacheFiles,
                 outcome, results, errors, successfulProviders, fetchPc>>
  /\ UNCHANGED otherThanFetch

\* fetchAll, the catch branch, reached from cached.map(...): the value the
\* cache returned cannot be mapped over
CachedValueThrows(n) ==
  /\ errors' = Append(errors, [provider |-> n, message |-> "not a function"])
  /\ outcome' = [outcome EXCEPT ![n] =
                   [kind |-> "threw", fetched |-> <<>>, cacheSet |-> FALSE]]
  /\ taskPc' = [taskPc EXCEPT ![n] = "settled"]
  /\ UNCHANGED <<results, successfulProviders>>

\* await this.cache.get(cacheKey) resolves: to the stored value, or to null
\* when there is no file, or the entry has expired or cannot be read or
\* parsed
CacheGet(n) ==
  /\ taskPc[n] = "cache"
  /\ \/ /\ cacheFiles[n].present
        /\ IF cacheFiles[n].isArray
             THEN Succeed(n, "hit",
                          [i \in 1..Len(cacheFiles[n].value) |->
                             Revive(cacheFiles[n].value[i])], FALSE)
             ELSE CachedValueThrows(n)
        /\ UNCHANGED searchCalls
     \/ /\ taskPc' = [taskPc EXCEPT ![n] = "search"]
        /\ searchCalls' = [searchCalls EXCEPT ![n] = 1]
        /\ UNCHANGED <<outcome, results, errors, successfulProviders>>
  /\ UNCHANGED <<providers, concurrency, retries, cacheEnabled, cacheFiles,
                 fetchPc>>
  /\ UNCHANGED otherThanFetch

SearchFailsNeverGivesUp(n) ==
  /\ taskPc[n] = "search"
  /\ IF searchCalls[n] <= retries + 1
       THEN /\ searchCalls' = [searchCalls EXCEPT ![n] = @ + 1]
            /\ UNCHANGED <<taskPc, outcome, results, errors,
                           successfulProviders>>
       ELSE /\ Fail(n)
            /\ UNCHANGED searchCalls
  /\ UNCHANGED <<providers, concurrency, retries, cacheEnabled, cacheFiles,
                 fetchPc>>
  /\ UNCHANGED otherThanFetch
\* provider.search(query, options) rejects: p-retry calls it again unless the
\* retries are used up, and then fetchFromProvider rejects
SearchFails(n) ==
  /\ taskPc[n] = "search"
  /\ IF searchCalls[n] <= retries
       THEN /\ searchCalls' = [searchCalls EXCEPT ![n] = @ + 1]
            /\ UNCHANGED <<taskPc, outcome, results, errors,
                           successfulProviders>>
       ELSE /\ Fail(n)
            /\ UNCHANGED searchCalls
  /\ UNCHANGED <<providers, concurrency, retries, cacheEnabled, cacheFiles,
                 fetchPc>>
  /\ UNCHANGED otherThanFetch

SearchSucceedsAlwaysStores(n) ==
  /\ taskPc[n] = "search"
  /\ \E found \in {<<>>, Answer(n)} :
       IF cacheEnabled
         THEN /\ taskPc' = [taskPc EXCEPT ![n] = "store"]
              /\ outcome' = [outcome EXCEPT ![n] =
                               [kind |-> "storing", fetched |-> found,
                                cacheSet |-> TRUE]]
              /\ UNCHANGED <<results, errors, successfulProviders>>
         ELSE Succeed(n, "searched", found, FALSE)
  /\ UNCHANGED <<providers, concurrency, retries, cacheEnabled, cacheFiles,
                 searchCalls, fetchPc>>
  /\ UNCHANGED otherThanFetch
\* provider.search resolves to `found`: a non-empty array goes to cache.set
\* when the cache is on, anything else is returned at once
SearchSucceeds(n) ==
  /\ taskPc[n] = "search"
  /\ \E found \in {<<>>, Answer(n)} :
       IF cacheEnabled /\ Len(found) > 0
         THEN /\ taskPc' = [taskPc EXCEPT ![n] = "store"]
              /\ outcome' = [outcome EXCEPT ![n] =
                               [kind |-> "storing", fetched |-> found,
                                cacheSet |-> TRUE]]
              /\ UNCHANGED <<results, errors, successfulProviders>>
         ELSE Succeed(n, "searched", found, FALSE)
  /\ UNCHANGED <<providers, concurrency, retries, cacheEnabled, cacheFiles,
                 searchCalls, fetchPc>>
  /\ UNCHANGED otherThanFetch

\* await this.cache.set(cacheKey, results) resolves, the file written or, on
\* an error FileCache.set swallows, not
CacheSet(n) ==
  /\ taskPc[n] = "store"
  /\ \/ cacheFiles' = [cacheFiles EXCEPT ![n] = Entry(outcome[n].fetched)]
     \/ UNCHANGED cacheFiles
  /\ Succeed(n, "searched", outcome[n].fetched, TRUE)
  /\ UNCHANGED <<providers, concurrency, retries, cacheEnabled, searchCalls,
                 fetchPc>>
  /\ UNCHANGED otherThanFetch

FetchReturnsEarly ==
  /\ fetchPc = "running"
  /\ \A n \in Tasks : taskPc[n] # "queued"
  /\ fetchPc' = "returned"
  /\ UNCHANGED <<providers, concurrency, retries, cacheEnabled, cacheFiles,
                 taskPc, searchCalls, outcome, results, errors,
                 successfulProviders>>
  /\ UNCHANGED otherThanFetch
\* await Promise.all(tasks) resolves and fetchAll returns
\* { results, errors, providers: successfulProviders }
FetchReturns ==
  /\ fetchPc = "running"
  /\ \A n \in Tasks : taskPc[n] = "settled"
  /\ fetchPc' = "returned"
  /\ UNCHANGED <<providers, concurrency, retries, cacheEnabled, cacheFiles,
                 taskPc, searchCalls, outcome, results, errors,
                 successfulProviders>>
  /\ UNCHANGED otherThanFetch

NextFetch ==
  \/ \E n \in NameSet : StartTask(n)
  \/ \E n \in NameSet : CacheGet(n)
  \/ \E n \in NameSet : SearchFails(n)
  \/ \E n \in NameSet : SearchSucceeds(n)
  \/ \E n \in NameSet : CacheSet(n)
  \/ FetchReturns

FetchFairness ==
  /\ \A n \in NameSet : WF_vars(StartTask(n))
  /\ \A n \in NameSet : WF_vars(CacheGet(n))
  /\ \A n \in NameSet : WF_vars(SearchFails(n) \/ SearchSucceeds(n))
  /\ \A n \in NameSet : WF_vars(CacheSet(n))
  /\ WF_vars(FetchReturns)

\* fetchAll just entered.
StartFetch ==
  InitFetch /\ LimiterAtRest /\ DedupAtRest /\ ScoreAtRest /\ SessionAtRest
    /\ NormAtRest
    /\ CatAtRest
    /\ SelAtRest
    /\ RefAtRest
    /\ BmAtRest
    /\ SharedAtRest

\* Every awaited call settles (a provider call is cut off by its timeout),
\* and the event loop runs every continuation that is ready.
SpecFetch ==
  /\ StartFetch
  /\ [][NextFetch]_vars
  /\ FetchFairness

\* A cache directory in which some files do not hold what FileCache.set
\* writes
CorruptCacheDirs ==
  {[n \in NameSet |-> IF n \in bad THEN CorruptEntry
                      ELSE IF n \in have THEN Entry(Answer(n)) ELSE NoEntry] :
     bad \in {{"duckduckgo"}, {"brave", "rss"}}, have \in {{}, {"brave"}}}

\* fetchAll entered with the cache on and such a directory
InitFetchCorrupt ==
  /\ providers \in {Names(n) : n \in 1..(Len(ProviderNames) - 1)}
  /\ concurrency \in 1..DefaultConcurrency
  /\ retries \in {0, DefaultRetries}
  /\ cacheEnabled = TRUE
  /\ cacheFiles \in CorruptCacheDirs
  /\ taskPc = [n \in NameSet |-> "queued"]
  /\ searchCalls = [n \in NameSet |-> 0]
  /\ outcome = [n \in NameSet |-> NoOutcome]
  /\ results = <<>>
  /\ errors = <<>>
  /\ successfulProviders = <<>>
  /\ fetchPc = "running"

StartFetchCorrupt ==
  InitFetchCorrupt /\ LimiterAtRest /\ DedupAtRest /\ ScoreAtRest
    /\ SessionAtRest
    /\ NormAtRest
    /\ CatAtRest
    /\ SelAtRest
    /\ RefAtRest
    /\ BmAtRest
    /\ SharedAtRest

SpecFetchCorrupt ==
  /\ StartFetchCorrupt
  /\ [][NextFetch]_vars
  /\ FetchFairness

(***************************************************************************)
(* QueryRefiner                                                            *)
(*                                                                         *)
(* A query, like a text, is the sequence of its tokens, with a double      *)
(* quote a token of its own; a term is the sequence of its words (one for  *)
(* a single term, two for a bigram).  A suggestion's score is in units of  *)
(* 1/SuggestionScale and its frequency in halves.                          *)
(***************************************************************************)
SuggestionScale == 12000
MaxSuggestions == 10

Quote == "\""

\* The members of STOP_WORDS among the words of the model
StopWords == {"a", "of", "the", "http", "https", "www", "com", "org", "net"}

\* The tokens of the model that are all digits
NumberWords == {"1"}

\* QueryRefiner.tokenize: lower case, every character outside [\w\s-]
\* becomes a blank, at least minTermLength (3) characters
RefinerTokenize(text) ==
  SelectSeq(LowerAll(text),
            LAMBDA w : w \notin Punctuation /\ w # Quote /\ Len(w) >= 3)

\* this.originalTerms
OriginalTerms(query) ==
  LET t == RefinerTokenize(query) IN {t[i] : i \in 1..Len(t)}

\* The length of the string `${w1} ${w2}`
RECURSIVE TermLength(_)
TermLength(term) ==
  IF term = <<>> THEN 0
  ELSE IF Len(term) = 1 THEN Len(term[1])
  ELSE Len(term[1]) + 1 + TermLength(Tail(term))

\* processText, the first loop: addTerm(termFreq, token, source, weight) for
\* each token, as the calls made in order (weight in halves)
TermCalls(text, source, weight) ==
  LET t == RefinerTokenize(text)
  IN  [i \in 1..Len(t) |->
         [term |-> <<t[i]>>, source |-> source, weight |-> weight]]

\* processText, the second loop: addTerm(bigramFreq, bigram, source, weight)
BigramCalls(text, source, weight) ==
  LET t == RefinerTokenize(text)
  IN  [i \in 1..(Len(t) - 1) |->
         [term |-> <<t[i], t[i + 1]>>, source |-> source, weight |-> weight]]

\* extractSuggestions: the domain keywords of a result.  The first label of
\* the host name, which in the model has no hyphen to split at.
DomainCalls(url) ==
  IF ~url.ok THEN <<>>
  ELSE LET domain == DropFirstWww(ParseUrl(url).host)
           part == IF domain = <<>> THEN "" ELSE domain[1]
       IN  IF Len(part) >= 3 /\ ToLower(part) \notin StopWords
             THEN <<[term |-> <<ToLower(part)>>, source |-> "domain",
                     weight |-> 1]>>
             ELSE <<>>

\* extractSuggestions, the loop over the results: the addTerm calls on
\* termFrequency, and those on bigramFrequency
RECURSIVE AllTermCalls(_)
AllTermCalls(input) ==
  IF input = <<>> THEN <<>>
  ELSE TermCalls(input[1].title, "title", 4)
         \o TermCalls(input[1].snippet, "snippet", 2)
         \o DomainCalls(input[1].url)
         \o AllTermCalls(Tail(input))

RECURSIVE AllBigramCalls(_)
AllBigramCalls(input) ==
  IF input = <<>> THEN <<>>
  ELSE BigramCalls(input[1].title, "title", 4)
         \o BigramCalls(input[1].snippet, "snippet", 2)
         \o AllBigramCalls(Tail(input))

\* The keys of the Map the calls fill, in insertion order
MapKeys(calls) ==
  LET first == SelectSeq([i \in 1..Len(calls) |-> i],
                         LAMBDA i : \A k \in 1..(i - 1) :
                                      calls[k].term # calls[i].term)
  IN  [i \in 1..Len(first) |-> calls[first[i]].term]

\* addTerm: the entry's count (in halves) and sources after the calls
RECURSIVE MapCount(_, _)
MapCount(calls, term) ==
  IF calls = <<>> THEN 0
  ELSE (IF calls[1].term = term THEN calls[1].weight ELSE 0)
         + MapCount(Tail(calls), term)

MapSources(calls, term) ==
  {calls[i].source : i \in {k \in 1..Len(calls) : calls[k].term = term}}

\* QueryRefiner.shouldIncludeTerm, with excludeOriginalTerms set
ShouldIncludeTerm(query, word) ==
  /\ ToLower(word) \notin StopWords
  /\ ToLower(word) \notin OriginalTerms(query)
  /\ Len(word) >= 3
  /\ word \notin NumberWords

\* QueryRefiner.calculateScore.  With n results the terms of the sum are
\* multiples of 1/(400 n).
CalculateScore(term, count, sources, n) ==
  LET unit == SuggestionScale \div (400 * n)
      freqScore == Min(count, 2 * n) * 200
      sourceBonus == (Cardinality(sources) - 1) * 40 * n
      titleBonus == IF "title" \in sources THEN 80 * n ELSE 0
      off == TermLength(term) - 8
      lengthScore == (20 - (IF off < 0 THEN 0 - off ELSE off)) * 2 * n
  IN  unit * Min(400 * n, freqScore + sourceBonus + titleBonus + lengthScore)

\* QueryRefiner.determinePrimarySource
DeterminePrimarySource(sources) ==
  IF "title" \in sources /\ "snippet" \in sources THEN "combined"
  ELSE IF "title" \in sources THEN "title"
  ELSE IF "snippet" \in sources THEN "snippet"
  ELSE "domain"

\* suggestions.sort((a, b) => b.score - a.score): stable, descending
RECURSIVE SortSuggestions(_)
SortSuggestions(s) ==
  IF Len(s) <= 1 THEN s
  ELSE LET rest == SortSuggestions(SubSeq(s, 1, Len(s) - 1))
           last == s[Len(s)]
           ahead == Cardinality({i \in 1..Len(rest) :
                                   rest[i].score >= last.score})
       IN  SubSeq(rest, 1, ahead) \o <<last>>
             \o SubSeq(rest, ahead + 1, Len(rest))

\* QueryRefiner.extractSuggestions, for the refiner of `query` built with
\* maxSuggestions 10, excludeOriginalTerms and includeNgrams
ExtractSuggestions(query, input) ==
  LET n == Len(input)
      termCalls == AllTermCalls(input)
      bigramCalls == AllBigramCalls(input)
      terms == SelectSeq(MapKeys(termCalls),
                         LAMBDA t : ShouldIncludeTerm(query, t[1]))
      bigrams == SelectSeq(MapKeys(bigramCalls),
                           LAMBDA t : MapCount(bigramCalls, t) >= 4)
      single == [i \in 1..Len(terms) |->
                   [term |-> terms[i],
                    score |-> CalculateScore(terms[i],
                                MapCount(termCalls, terms[i]),
                                MapSources(termCalls, terms[i]), n),
                    source |-> DeterminePrimarySource(
                                 MapSources(termCalls, terms[i])),
                    frequency |-> MapCount(termCalls, terms[i])]]
      double == [i \in 1..Len(bigrams) |->
                   [term |-> bigrams[i],
                    score |-> (12 * CalculateScore(bigrams[i],
                                 MapCount(bigramCalls, bigrams[i]),
                                 MapSources(bigramCalls, bigrams[i]), n))
                                \div 10,
                    source |-> "combined",
                    frequency |-> MapCount(bigramCalls, bigrams[i])]]
      sorted == SortSuggestions(single \o double)
  IN  SubSeq(sorted, 1, Min(Len(sorted), MaxSuggestions))

\* [...new Set(queries)] left out: every query kept
DistinctKeepsAll(queries) ==
  SelectSeq([i \in 1..Len(queries) |-> [q |-> queries[i], first |-> TRUE]],
            LAMBDA e : e.first)
\* [...new Set(queries)]: the first occurrence of each query, in order
Distinct(queries) ==
  SelectSeq([i \in 1..Len(queries) |->
               [q |-> queries[i],
                first |-> \A k \in 1..(i - 1) : queries[k] # queries[i]]],
            LAMBDA e : e.first)

\* terms.join(' ')
RECURSIVE JoinTerms(_)
JoinTerms(terms) ==
  IF terms = <<>> THEN <<>> ELSE terms[1] \o JoinTerms(Tail(terms))

\* QueryRefiner.buildRefinedQueries of the refiner of `query`
BuildRefinedQueries(query, terms, strategy) ==
  LET n == Len(terms)
      queries ==
        CASE strategy = "expand" ->
               [i \in 1..n |-> query \o terms[i]]
                 \o (IF n >= 2
                       THEN <<query \o JoinTerms(SubSeq(terms, 1, 2))>>
                       ELSE <<>>)
          [] strategy = "narrow" ->
               [i \in 1..n |->
                  <<Quote>> \o query \o <<Quote, Quote>> \o terms[i]
                    \o <<Quote>>]
          [] strategy = "pivot" ->
               [i \in 1..n |-> terms[i]]
                 \o (IF n >= 2 THEN <<JoinTerms(terms)>> ELSE <<>>)
      kept == Distinct(queries)
  IN  [i \in 1..Len(kept) |-> kept[i].q]

(***************************************************************************)
(* QueryRefiner on its own: a refiner is constructed for a query, and      *)
(* extractSuggestions and buildRefinedQueries are called on it once each.  *)
(***************************************************************************)
MaxRefInput == 2
MaxSelected == 2

\* The terms handed to buildRefinedQueries: suggestions, one of them a bigram
SelectableTerms == {<<"react">>, <<"node">>, <<"react", "node">>}

SelectedTermLists ==
  UNION {[1..n -> SelectableTerms] : n \in 0..MaxSelected}

Strategies == {"expand", "narrow", "pivot"}

\* new QueryRefiner(originalQuery), with the default options
InitRef ==
  /\ refQuery \in {<<"typescript">>, <<"React">>}
  /\ refResults \in {Objects(ids) : ids \in PoolSeqs(MaxRefInput)}
  /\ refSuggestions = <<>>
  /\ refBuilt = [terms |-> <<>>, strategy |-> "", queries |-> <<>>]
  /\ refPc = [extract |-> "ready", build |-> "ready"]

\* const suggestions = refiner.extractSuggestions(results)
ExtractSuggestionsCall ==
  /\ refPc.extract = "ready"
  /\ refSuggestions' = ExtractSuggestions(refQuery, refResults)
  /\ refPc' = [refPc EXCEPT !.extract = "done"]
  /\ UNCHANGED <<refQuery, refResults, refBuilt>>
  /\ UNCHANGED otherThanRef

\* const queries = refiner.buildRefinedQueries(selectedTerms, strategy)
BuildRefinedQueriesCall(terms, strategy) ==
  /\ refPc.build = "ready"
  /\ refBuilt' = [terms |-> terms, strategy |-> strategy,
                  queries |-> BuildRefinedQueries(refQuery, terms, strategy)]
  /\ refPc' = [refPc EXCEPT !.build = "done"]
  /\ UNCHANGED <<refQuery, refResults, refSuggestions>>
  /\ UNCHANGED otherThanRef

NextRef ==
  \/ ExtractSuggestionsCall
  \/ \E terms \in SelectedTermLists, strategy \in Strategies :
       BuildRefinedQueriesCall(terms, strategy)

\* A refiner just constructed.
StartRef ==
  InitRef /\ LimiterAtRest /\ DedupAtRest /\ ScoreAtRest /\ FetchAtRest
    /\ SessionAtRest
    /\ NormAtRest
    /\ CatAtRest
    /\ SelAtRest
    /\ BmAtRest
    /\ SharedAtRest

SpecRef ==
  /\ StartRef
  /\ [][NextRef]_vars

(***************************************************************************)
(* BM25Ranker: one ranker, on which buildIndex and scoreAll are called.    *)
(* Scores are fixed-point numbers in units of 1/IdfScale; the natural      *)
(* logarithm is tabulated for the integers the index statistics produce.   *)
(***************************************************************************)
MaxBmInput == 2
MaxBmCalls == 2
IdfScale == 1000

\* Math.log on 1..10, in units of 1/IdfScale
LnTable == <<0, 693, 1099, 1386, 1609, 1792, 1946, 2079, 2197, 2303>>

\* BM25Ranker.tokenize
BmTokenize(text) ==
  SelectSeq(LowerAll(text), LAMBDA w : w \notin Punctuation /\ Len(w) > 1)

\* BM25Ranker.getDocumentText followed by tokenize
DocTokens(result) ==
  BmTokenize(LowerAll(result.title \o result.title \o result.snippet))

\* BM25Ranker.computeIDF with this.totalDocs = n:
\* ln(1 + (n - df + 0.5) / (df + 0.5)) = ln((2n + 2) / (2df + 1))
ComputeIDF(n, df) == LnTable[2 * n + 2] - LnTable[2 * df + 1]

TokenSet(list) == {list[i] : i \in 1..Len(list)}

RECURSIVE SumLengths(_)
SumLengths(docs) ==
  IF docs = <<>> THEN 0 ELSE Len(DocTokens(docs[1])) + SumLengths(Tail(docs))

\* The fields buildIndex(results) leaves on the ranker
BuildIndex(input) ==
  LET terms == UNION {TokenSet(DocTokens(input[i])) : i \in 1..Len(input)}
      df == [t \in terms |->
               Cardinality({i \in 1..Len(input) :
                              t \in TokenSet(DocTokens(input[i]))})]
  IN  [totalDocs |-> Len(input),
       docFrequency |-> df,
       idfCache |-> [t \in terms |-> ComputeIDF(Len(input), df[t])],
       avgDocLength |-> [num |-> SumLengths(input),
                         den |-> Max(Len(input), 1)]]

\* The index the ranker holds
Index ==
  [totalDocs |-> totalDocs, docFrequency |-> docFrequency,
   idfCache |-> idfCache, avgDocLength |-> avgDocLength]

\* One term of the sum in scoreDocument, with k1 = 1.5, b = 0.75, delta = 0:
\* idf * tf * 2.5 / (tf + 1.5 * (0.25 + 0.75 * docLength / avgDocLength));
\* a division by an avgDocLength of 0 makes the term 0
TermScore(index, tf, docLength, term) ==
  LET idf == IF term \in DOMAIN index.idfCache
               THEN index.idfCache[term]
               ELSE ComputeIDF(index.totalDocs, 0)
      avg == index.avgDocLength
  IN  (idf * 20 * tf * avg.num)
        \div ((8 * tf + 3) * avg.num + 9 * docLength * avg.den)

RECURSIVE SumTerms(_, _, _)
SumTerms(index, docTokens, queryTokens) ==
  IF queryTokens = <<>> THEN 0
  ELSE LET term == queryTokens[1]
           tf == Cardinality({i \in 1..Len(docTokens) : docTokens[i] = term})
       IN  (IF tf = 0 THEN 0
            ELSE TermScore(index, tf, Len(docTokens), term))
             + SumTerms(index, docTokens, Tail(queryTokens))

\* BM25Ranker.scoreDocument
ScoreDocument(index, result, queryTokens) ==
  SumTerms(index, DocTokens(result), queryTokens)

\* results.sort((a, b) => b.bm25Score - a.bm25Score): stable, descending
RECURSIVE SortByBm25(_)
SortByBm25(scored) ==
  IF Len(scored) <= 1 THEN scored
  ELSE LET rest == SortByBm25(SubSeq(scored, 1, Len(scored) - 1))
           last == scored[Len(scored)]
           ahead == Cardinality({i \in 1..Len(rest) :
                                   rest[i].bm25Score >= last.bm25Score})
       IN  SubSeq(rest, 1, ahead) \o <<last>>
             \o SubSeq(rest, ahead + 1, Len(rest))

\* scoreAll after the index question is settled:
\* results.map(... bm25Score: this.scoreDocument(result, queryTokens)).sort
ScoreWith(index, input, query) ==
  SortByBm25([i \in 1..Len(input) |->
                [result |-> input[i],
                 bm25Score |-> ScoreDocument(index, input[i],
                                             BmTokenize(LowerAll(query)))]])

\* The result lists and queries handed to the ranker
BmInputs ==
  {Objects(ids) : ids \in {q \in PoolSeqs(MaxBmInput) :
                             \A i \in 1..Len(q) : q[i] \in 2..4}}

BmQueries == {<<"React">>, <<"node", "guide">>}

\* new BM25Ranker()
InitBm ==
  /\ totalDocs = 0
  /\ docFrequency = [t \in {} |-> 0]
  /\ idfCache = [t \in {} |-> 0]
  /\ avgDocLength = [num |-> 0, den |-> 1]
  /\ bmArgs = [op |-> "new", results |-> <<>>, query |-> <<>>,
               rebuilt |-> FALSE]
  /\ bmScored = <<>>
  /\ bmCalls = 0

\* ranker.buildIndex(results)
BuildIndexCall(input) ==
  /\ bmCalls < MaxBmCalls
  /\ bmCalls' = bmCalls + 1
  /\ LET built == BuildIndex(input)
     IN  /\ totalDocs' = built.totalDocs
         /\ docFrequency' = built.docFrequency
         /\ idfCache' = built.idfCache
         /\ avgDocLength' = built.avgDocLength
  /\ bmArgs' = [op |-> "buildIndex", results |-> input, query |-> <<>>,
                rebuilt |-> TRUE]
  /\ UNCHANGED bmScored
  /\ UNCHANGED otherThanBm

\* ranker.scoreAll(results, query): the index is built again only when
\* there is none or it holds another number of documents
BmScoreAllCall(input, query) ==
  /\ bmCalls < MaxBmCalls
  /\ bmCalls' = bmCalls + 1
  /\ LET rebuild == totalDocs = 0 \/ totalDocs # Len(input)
         used == IF rebuild THEN BuildIndex(input) ELSE Index
     IN  /\ bmArgs' = [op |-> "scoreAll", results |-> input, query |-> query,
                       rebuilt |-> rebuild]
         /\ totalDocs' = used.totalDocs
         /\ docFrequency' = used.docFrequency
         /\ idfCache' = used.idfCache
         /\ avgDocLength' = used.avgDocLength
         /\ bmScored' = ScoreWith(used, input, query)
  /\ UNCHANGED otherThanBm

NextBm ==
  \/ \E input \in BmInputs : BuildIndexCall(input)
  \/ \E input \in BmInputs, query \in BmQueries : BmScoreAllCall(input, query)

\* A ranker just constructed.
StartBm ==
  InitBm /\ LimiterAtRest /\ DedupAtRest /\ ScoreAtRest /\ FetchAtRest
    /\ SessionAtRest
    /\ NormAtRest
    /\ CatAtRest
    /\ SelAtRest
    /\ RefAtRest
    /\ SharedAtRest

SpecBm ==
  /\ StartBm
  /\ [][NextBm]_vars

(***************************************************************************)
(* Categorizer                                                             *)
(*                                                                         *)
(* A hostname, a URL and a rule value are sequences of tokens: words, and  *)
(* the separators between them.  a.includes(b) is TextIncludes on them.    *)
(***************************************************************************)
MaxCatInput == 2
MaxCategoryEdits == 1

\* CategoryRule: { type, value }, value always as the array matchCategories
\* makes of it
Rule(type, value) == [type |-> type, value |-> value]

\* Category: { name, rules }
Category(name, rules) == [name |-> name, rules |-> rules]

DEFAULT_CATEGORIES ==
  <<Category("Documentation",
      <<Rule("domain", <<<<"docs", ".">>, <<"documentation", ".">>,
                         <<"developer", ".">>, <<"devdocs", ".">>>>),
        Rule("keyword", <<<<"documentation">>, <<"docs">>,
                          <<"api", "reference">>, <<"guide">>>>),
        Rule("url_pattern", <<<<"/", "docs", "/">>,
                              <<"/", "documentation", "/">>,
                              <<"/", "api", "/">>,
                              <<"/", "reference", "/">>>>)>>),
    Category("Tutorial",
      <<Rule("keyword", <<<<"tutorial">>, <<"how", "to">>,
                          <<"step", "by", "step">>,
                          <<"getting", "started">>, <<"learn">>>>),
        Rule("url_pattern", <<<<"/", "tutorial">>, <<"/", "guide", "/">>,
                              <<"/", "learn", "/">>,
                              <<"/", "howto", "/">>>>)>>),
    Category("Repository",
      <<Rule("domain", <<<<"github", ".", "com">>, <<"gitlab", ".", "com">>,
                         <<"bitbucket", ".", "org">>,
                         <<"npmjs", ".", "com">>, <<"pypi", ".", "org">>>>),
        Rule("url_pattern", <<<<"/", "repository", "/">>,
                              <<"/", "packages", "/">>,
                              <<"/", "releases", "/">>>>)>>),
    Category("Discussion",
      <<Rule("domain", <<<<"stackoverflow", ".", "com">>,
                         <<"reddit", ".", "com">>, <<"discourse", ".">>,
                         <<"discuss", ".">>>>),
        Rule("keyword", <<<<"question">>, <<"answer">>, <<"discussion">>,
                          <<"forum">>, <<"community">>>>)>>),
    Category("Blog",
      <<Rule("domain", <<<<"medium", ".", "com">>, <<"dev", ".", "to">>,
                         <<"hashnode", ".">>, <<"substack", ".", "com">>>>),
        Rule("url_pattern", <<<<"/", "blog", "/">>, <<"/", "posts", "/">>,
                              <<"/", "articles", "/">>,
                              <<"/", "news", "/">>>>),
        Rule("keyword", <<<<"blog", "post">>, <<"article">>,
                          <<"written", "by">>>>)>>),
    Category("News",
      <<Rule("keyword", <<<<"announced">>, <<"release">>, <<"update">>,
                          <<"breaking">>, <<"news">>>>),
        Rule("url_pattern", <<<<"/", "news", "/">>,
                              <<"/", "announcements", "/">>,
                              <<"/", "press", "/">>>>)>>),
    Category("Video",
      <<Rule("domain", <<<<"youtube", ".", "com">>, <<"vimeo", ".", "com">>,
                         <<"twitch", ".", "tv">>>>),
        Rule("url_pattern", <<<<"/", "watch">>, <<"/", "video", "/">>,
                              <<"/", "videos", "/">>>>)>>),
    Category("Research",
      <<Rule("domain", <<<<"arxiv", ".", "org">>, <<"scholar", ".", "google">>,
                         <<"researchgate", ".", "net">>,
                         <<"academia", ".", "edu">>>>),
        Rule("keyword", <<<<"paper">>, <<"research">>, <<"study">>,
                          <<"abstract">>, <<"citation">>>>),
        Rule("url_pattern", <<<<"/", "paper", "/">>,
                              <<"/", "publication", "/">>,
                              <<"/", "research", "/">>>>)>>)>>

\* The labels of a hostname with the dots between them
RECURSIVE Dotted(_)
Dotted(host) ==
  IF Len(host) <= 1 THEN host
  ELSE <<Head(host), ".">> \o Dotted(Tail(host))

\* result.url.toLowerCase(), the string as given, in tokens
UrlTokens(u) ==
  IF ~u.ok THEN <<ToLower(u.raw)>>
  ELSE
    LET RECURSIVE Segments(_), Params(_)
        Segments(path) ==
          IF path = <<>> THEN <<>>
          ELSE <<"/", ToLower(Head(path))>> \o Segments(Tail(path))
        Params(q) ==
          IF q = <<>> THEN <<>>
          ELSE <<Head(q).k, "=", Head(q).v>>
                 \o (IF Len(q) > 1 THEN <<"&">> ELSE <<>>)
                 \o Params(Tail(q))
    IN  <<ToLower(u.scheme), "://">> \o Dotted(LowerAll(u.host))
          \o Segments(u.path)
          \o [i \in 1..u.slashes |-> "/"]
          \o (IF u.query = <<>> THEN <<>> ELSE <<"?">> \o Params(u.query))
          \o (IF u.hash = "" THEN <<>> ELSE <<"#", ToLower(u.hash)>>)

\* matchCategories: hostname, '' when new URL(result.url) throws
CategorizerHostname(result) ==
  IF result.url.ok THEN Dotted(ParseUrl(result.url).host) ELSE <<>>

\* matchCategories, the switch on rule.type: some value of the rule is
\* included in what the rule looks at
RuleMatches(rule, result) ==
  LET text == LowerAll(result.title \o result.snippet)
      looksAt == CASE rule.type = "domain" -> CategorizerHostname(result)
                   [] rule.type = "keyword" -> text
                   [] rule.type = "url_pattern" -> UrlTokens(result.url)
                   [] OTHER -> <<>>
  IN  \E v \in 1..Len(rule.value) :
        TextIncludes(looksAt, LowerAll(rule.value[v]))

\* matchCategories, one turn of the outer loop: the names pushed for
\* `category`, were it to push at every rule that matches
NamesPerMatchingRule(category, result) ==
  LET hits == SelectSeq(category.rules, LAMBDA r : RuleMatches(r, result))
  IN  [i \in 1..Len(hits) |-> category.name]

\* matchCategories, one turn of the outer loop: `matched` is set by the
\* first rule that matches and the name is pushed once
NamesForCategory(category, result) ==
  IF \E r \in 1..Len(category.rules) : RuleMatches(category.rules[r], result)
    THEN <<category.name>>
    ELSE <<>>

\* Categorizer.matchCategories with this.categories = cats
MatchCategories(cats, result) ==
  LET RECURSIVE Loop(_)
      Loop(k) == IF k > Len(cats) THEN <<>>
                 ELSE NamesForCategory(cats[k], result) \o Loop(k + 1)
      matches == Loop(1)
  IN  IF Len(matches) = 0 THEN <<"General">> ELSE matches

\* Categorizer.categorize: { ...result, categories }
Categorize(cats, scored) ==
  [i \in 1..Len(scored) |->
     [oid |-> scored[i].oid, url |-> scored[i].url,
      title |-> scored[i].title, snippet |-> scored[i].snippet,
      source |-> scored[i].source, timestamp |-> scored[i].timestamp,
      metadata |-> scored[i].metadata, score |-> scored[i].score,
      categories |-> MatchCategories(cats, scored[i])]]

\* The results handed to categorize: those of the pool, and three more that
\* match no category, two rules of one category, and a url_pattern
CategorizerPool ==
  ResultPool \o
  <<SearchResult(0, ExamplePage, <<"Intro">>, <<"of", "react">>,
                 "brave", 10, NoMetadata),
    SearchResult(0, Url("https", <<"Docs", "example", "com">>,
                        <<"docs", "api">>, 1, <<>>, ""),
                 <<"API", "reference">>, <<"of", "node">>,
                 "brave", 20, NoMetadata),
    SearchResult(0, Url("https", <<"www", "youtube", "com">>,
                        <<"watch">>, 0, <<[k |-> "id", v |-> "1"]>>, ""),
                 <<"React", "news">>, <<>>,
                 "serp", 30, NoMetadata)>>

\* new Categorizer(customCategories)
CustomCategories ==
  {<<>>,
   <<Category("Node", <<Rule("keyword", <<<<"Node">>>>)>>),
     Category("Secure", <<Rule("url_pattern", <<<<"https", "://">>>>),
                          Rule("domain", <<<<"example", ".", "com">>>>)>>),
     Category("Empty", <<>>)>>}

\* The categories handed to addCategory, the names handed to removeCategory
AddedCategories ==
  {Category("React", <<Rule("keyword", <<<<"react">>>>)>>)}
RemovedNames == {"Documentation", "Secure", "Missing"}

CategorizerInputs ==
  LET ids == UNION {[1..n -> 1..Len(CategorizerPool)] : n \in 0..MaxCatInput}
  IN  {[i \in 1..Len(q) |->
          Score(DefaultWeights, WithOid(CategorizerPool[q[i]], i),
                <<"React">>)] : q \in ids}

\* constructor: this.categories = customCategories ?? DEFAULT_CATEGORIES
InitCat ==
  /\ categories \in {DEFAULT_CATEGORIES} \cup CustomCategories
  /\ catInput \in CategorizerInputs
  /\ catOutput = <<>>
  /\ catEdits = 0
  /\ catPc = "ready"

\* categorizer.addCategory(category)
AddCategory(category) ==
  /\ catPc = "ready"
  /\ catEdits < MaxCategoryEdits
  /\ categories' = Append(categories, category)
  /\ catEdits' = catEdits + 1
  /\ UNCHANGED <<catInput, catOutput, catPc>>
  /\ UNCHANGED otherThanCat

\* categorizer.removeCategory(name)
RemoveCategory(name) ==
  /\ catPc = "ready"
  /\ catEdits < MaxCategoryEdits
  /\ categories' =
       IF \E k \in 1..Len(categories) : categories[k].name = name
         THEN LET index == CHOOSE k \in 1..Len(categories) :
                             /\ categories[k].name = name
                             /\ \A h \in 1..(k - 1) : categories[h].name # name
              IN  SubSeq(categories, 1, index - 1)
                    \o SubSeq(categories, index + 1, Len(categories))
         ELSE categories
  /\ catEdits' = catEdits + 1
  /\ UNCHANGED <<catInput, catOutput, catPc>>
  /\ UNCHANGED otherThanCat

\* const categorized = categorizer.categorize(scored)
CategorizeCall ==
  /\ catPc = "ready"
  /\ catOutput' = Categorize(categories, catInput)
  /\ catPc' = "done"
  /\ UNCHANGED <<categories, catInput, catEdits>>
  /\ UNCHANGED otherThanCat

NextCat ==
  \/ \E category \in AddedCategories : AddCategory(category)
  \/ \E name \in RemovedNames : RemoveCategory(name)
  \/ CategorizeCall

\* A categorizer just constructed, and the results it is about to be given.
StartCat ==
  InitCat /\ LimiterAtRest /\ DedupAtRest /\ ScoreAtRest /\ FetchAtRest
    /\ SessionAtRest
    /\ NormAtRest
    /\ SelAtRest
    /\ RefAtRest
    /\ BmAtRest
    /\ SharedAtRest

SpecCat ==
  /\ StartCat
  /\ [][NextCat]_vars

(***************************************************************************)
(* Several Categorizer instances in one process.  DEFAULT_CATEGORIES is    *)
(* one array of the module; an instance constructed without custom         *)
(* categories holds a reference to it, an instance constructed with an     *)
(* array holds that array.                                                 *)
(***************************************************************************)
MaxCategorizers == 2
MaxSharedEdits == 2

NoSharedCall ==
  [op |-> "none", on |-> 0, input |-> <<>>, output |-> <<>>,
   pristine |-> FALSE]

\* this.categories of the instance `k`: the module's array or its own
CategoriesOf(k) ==
  IF categorizers[k].custom THEN categorizers[k].own ELSE defaultCategories

\* this.categories.splice(index, 1) at the first category named `name`
Spliced(cats, name) ==
  IF \E k \in 1..Len(cats) : cats[k].name = name
    THEN LET index == CHOOSE k \in 1..Len(cats) :
                        /\ cats[k].name = name
                        /\ \A h \in 1..(k - 1) : cats[h].name # name
         IN  SubSeq(cats, 1, index - 1) \o SubSeq(cats, index + 1, Len(cats))
    ELSE cats

\* The results given to categorize: one result of the pool
SharedInputs ==
  {<<Score(DefaultWeights, WithOid(CategorizerPool[p], 1), <<"React">>)>> :
     p \in {3, 6, 7}}

\* The module is loaded: no Categorizer yet
InitShared ==
  /\ defaultCategories = DEFAULT_CATEGORIES
  /\ categorizers = <<>>
  /\ sharedCall = NoSharedCall
  /\ sharedEdits = 0

\* new Categorizer(): this.categories = DEFAULT_CATEGORIES
NewDefaultCategorizer ==
  /\ Len(categorizers) < MaxCategorizers
  /\ categorizers' = Append(categorizers,
                            [custom |-> FALSE, given |-> DEFAULT_CATEGORIES,
                             own |-> <<>>, edited |-> FALSE])
  /\ sharedCall' = [NoSharedCall EXCEPT !.op = "new",
                                        !.on = Len(categorizers) + 1]
  /\ UNCHANGED <<defaultCategories, sharedEdits>>
  /\ UNCHANGED otherThanShared

\* new Categorizer(customCategories): this.categories = customCategories
NewCustomCategorizer(custom) ==
  /\ Len(categorizers) < MaxCategorizers
  /\ categorizers' = Append(categorizers,
                            [custom |-> TRUE, given |-> custom,
                             own |-> custom, edited |-> FALSE])
  /\ sharedCall' = [NoSharedCall EXCEPT !.op = "new",
                                        !.on = Len(categorizers) + 1]
  /\ UNCHANGED <<defaultCategories, sharedEdits>>
  /\ UNCHANGED otherThanShared

\* The array this.categories of the instance `k` becomes `cats`
WriteCategories(k, cats) ==
  IF categorizers[k].custom
    THEN /\ categorizers' = [categorizers EXCEPT ![k].own = cats,
                                                 ![k].edited = TRUE]
         /\ UNCHANGED defaultCategories
    ELSE /\ categorizers' = [categorizers EXCEPT ![k].edited = TRUE]
         /\ defaultCategories' = cats

\* categorizers[k].addCategory(category): this.categories.push(category)
AddCategoryOn(k, category) ==
  /\ k \in 1..Len(categorizers)
  /\ sharedEdits < MaxSharedEdits
  /\ WriteCategories(k, Append(CategoriesOf(k), category))
  /\ sharedEdits' = sharedEdits + 1
  /\ sharedCall' = [NoSharedCall EXCEPT !.op = "addCategory", !.on = k]
  /\ UNCHANGED otherThanShared

\* categorizers[k].removeCategory(name)
RemoveCategoryOn(k, name) ==
  /\ k \in 1..Len(categorizers)
  /\ sharedEdits < MaxSharedEdits
  /\ WriteCategories(k, Spliced(CategoriesOf(k), name))
  /\ sharedEdits' = sharedEdits + 1
  /\ sharedCall' = [NoSharedCall EXCEPT !.op = "removeCategory", !.on = k]
  /\ UNCHANGED otherThanShared

\* categorizers[k].categorize(input)
CategorizeOn(k, input) ==
  /\ k \in 1..Len(categorizers)
  /\ sharedCall.op # "categorize"
  /\ sharedCall' = [op |-> "categorize", on |-> k, input |-> input,
                    output |-> Categorize(CategoriesOf(k), input),
                    pristine |-> ~categorizers[k].edited]
  /\ UNCHANGED <<defaultCategories, categorizers, sharedEdits>>
  /\ UNCHANGED otherThanShared

NextShared ==
  \/ NewDefaultCategorizer
  \/ \E custom \in CustomCategories : NewCustomCategorizer(custom)
  \/ \E k \in 1..MaxCategorizers, category \in AddedCategories :
       AddCategoryOn(k, category)
  \/ \E k \in 1..MaxCategorizers, name \in RemovedNames :
       RemoveCategoryOn(k, name)
  \/ \E k \in 1..MaxCategorizers, input \in SharedInputs :
       CategorizeOn(k, input)

\* The module just loaded.
StartShared ==
  InitShared /\ LimiterAtRest /\ DedupAtRest /\ ScoreAtRest /\ FetchAtRest
    /\ SessionAtRest
    /\ NormAtRest
    /\ CatAtRest
    /\ SelAtRest
    /\ RefAtRest
    /\ BmAtRest

SpecShared ==
  /\ StartShared
  /\ [][NextShared]_vars

(***************************************************************************)
(* InteractiveSearch                                                       *)
(*                                                                         *)
(* One session from construction to the end of run().  The calls of        *)
(* searchLoop in progress are the frames of `stack`, innermost last; a     *)
(* frame waits at a prompt ("confirm", "prompt", "zeroPrompt", "strategy"),*)
(* for its fetch ("searching") or for the searchLoop it called ("calls",   *)
(* with the queries its for loop has still to run).  The session runs with *)
(* the default deduplication and scoring configuration.                    *)
(***************************************************************************)
DefaultMaxDepth == 3
MaxSearches == 3

\* options.maxDepth: a number, or left undefined
Undefined == 0 - 1
MaxDepthOptions == {Undefined, 1}
SessionQueries == {<<"React">>}

\* this.options.maxDepth ?? 3
MaxDepthOf(opts) ==
  IF opts.maxDepth = Undefined THEN DefaultMaxDepth ELSE opts.maxDepth

\* What fetcher.fetchAll can resolve with in a round: results of the pool by
\* number, each time as new objects
Batches == {<<>>, <<1>>, <<2, 3>>, <<4>>}

\* createProviders(options.config): the providers the configuration enables
\* and has the key or the feeds for, none or all four
EnabledProviders == {{}, {"duckduckgo", "brave", "rss", "serp"}}

\* A line typed at a prompt, trimmed: a command "/cmd arg", or a text with
\* its comma-separated parts as parseSelection reads them
NaN == 0 - 1
Command(cmd, arg) == [slash |-> TRUE, cmd |-> cmd, arg |-> arg, parts |-> <<>>]
Text(arg, parts) == [slash |-> FALSE, cmd |-> "", arg |-> arg, parts |-> parts]
Number(n) == [range |-> FALSE, a |-> n, b |-> NaN]
Range(a, b) == [range |-> TRUE, a |-> a, b |-> b]

Inputs ==
  {Command("done", <<>>), Command("Finish", <<>>), Command("quit", <<>>),
   Command("add", <<"node">>), Command("add", <<>>),
   Command("query", <<"react", "node">>), Command("query", <<>>),
   Command("expand", <<>>), Command("narrow", <<>>), Command("pivot", <<>>),
   Command("results", <<>>), Command("export", <<>>),
   Command("history", <<>>), Command("undo", <<>>),
   Text(<<>>, <<>>), Text(<<"node">>, <<Number(NaN)>>),
   Text(<<"1">>, <<Number(1)>>), Text(<<"3,1-1">>, <<Number(3), Range(1, 1)>>)}

ConfirmAnswers == {"y", "Y", "n"}
StrategyAnswers == {"", "N", "pivot"}

\* cmd.toLowerCase() and answer.toLowerCase() on the words typed
LowerTyped(w) ==
  CASE w = "Finish" -> "finish"
    [] w = "Y"      -> "y"
    [] w = "N"      -> "n"
    [] OTHER        -> w

NoStep == [op |-> "none", answer |-> "", batch |-> <<>>]

Frame(query, depth, pc) ==
  [query |-> query, depth |-> depth, pc |-> pc, suggestions |-> <<>>,
   pending |-> <<>>]

\* InteractiveSearch.parseSelection: the numbers of one part
PartNumbers(part, max) ==
  IF part.range
    THEN IF part.a > 0 /\ part.b > 0
           THEN {i \in part.a..Min(part.b, max) : i >= 1}
           ELSE {}
    ELSE IF part.a # NaN /\ part.a >= 1 /\ part.a <= max
           THEN {part.a}
           ELSE {}

\* InteractiveSearch.parseSelection: [...new Set(numbers)].sort()
ParseSelection(parts, max) ==
  LET numbers == UNION {PartNumbers(parts[i], max) : i \in 1..Len(parts)}
  IN  SelectSeq([i \in 1..max |-> i], LAMBDA i : i \in numbers)

(***************************************************************************)
(* parseSelection on the characters typed                                  *)
(*                                                                         *)
(* A part of the input (what stands between two commas, trimmed) is a      *)
(* sequence of characters.                                                 *)
(***************************************************************************)
MaxPartLen == 3

Digits == {"0", "1", "3"}
Chars == Digits \cup {"-", "x"}

DigitValue(c) == CASE c = "0" -> 0 [] c = "1" -> 1 [] c = "3" -> 3

\* parseInt(text, 10) on these characters: the number written by the longest
\* prefix of digits, NaN when there is none
ParseInt(text) ==
  LET RECURSIVE Go(_, _)
      Go(i, acc) ==
        IF i > Len(text) \/ text[i] \notin Digits THEN acc
        ELSE Go(i + 1, 10 * acc + DigitValue(text[i]))
  IN  IF text = <<>> \/ text[1] \notin Digits THEN NaN ELSE Go(1, 0)

\* part.split('-')
RECURSIVE SplitDash(_)
SplitDash(text) ==
  IF \E i \in 1..Len(text) : text[i] = "-"
    THEN LET at == CHOOSE i \in 1..Len(text) :
                     /\ text[i] = "-"
                     /\ \A k \in 1..(i - 1) : text[k] # "-"
         IN  <<SubSeq(text, 1, at - 1)>>
               \o SplitDash(SubSeq(text, at + 1, Len(text)))
    ELSE <<text>>

\* parseSelection, the loop body up to the numbers read from one part:
\* const [start, end] = part.split('-').map(parseInt), or parseInt(part)
ReadPart(text) ==
  IF \E i \in 1..Len(text) : text[i] = "-"
    THEN LET pieces == SplitDash(text)
         IN  Range(ParseInt(pieces[1]), ParseInt(pieces[2]))
    ELSE Number(ParseInt(text))

\* InteractiveSearch.parseSelection(input, max), input given by its parts
ParseSelectionText(input, max) ==
  ParseSelection([i \in 1..Len(input) |-> ReadPart(input[i])], max)

\* The parts of at most MaxPartLen characters
PartTexts == UNION {[1..n -> Chars] : n \in 0..MaxPartLen}

\* The inputs: one part, alone or before or after '3' or '1-3'
SelectionInputs ==
  {<<p>> : p \in PartTexts}
    \cup {<<p, q>> : p \in PartTexts, q \in {<<"3">>, <<"1", "-", "3">>}}
    \cup {<<q, p>> : p \in PartTexts, q \in {<<"3">>}}

InitSel ==
  /\ selInput \in SelectionInputs
  /\ selMax \in {0, 3, 10}
  /\ selOutput = <<>>
  /\ selPc = "ready"

\* const selected = this.parseSelection(input, max)
ParseSelectionCall ==
  /\ selPc = "ready"
  /\ selOutput' = ParseSelectionText(selInput, selMax)
  /\ selPc' = "done"
  /\ UNCHANGED <<selInput, selMax>>
  /\ UNCHANGED otherThanSel

NextSel == ParseSelectionCall

\* parseSelection about to be called.
StartSel ==
  InitSel /\ LimiterAtRest /\ DedupAtRest /\ ScoreAtRest /\ FetchAtRest
    /\ SessionAtRest
    /\ NormAtRest
    /\ CatAtRest
    /\ RefAtRest
    /\ BmAtRest
    /\ SharedAtRest

SpecSel ==
  /\ StartSel
  /\ [][NextSel]_vars

\* slice(0, n + 1), for comparison
SliceOneMore(queries, n) == SubSeq(queries, 1, Min(n + 1, Len(queries)))
\* queries.slice(0, n)
Slice(queries, n) == SubSeq(queries, 1, Min(n, Len(queries)))

\* The strategy prompt: (n)arrow, (p)ivot, anything else is expand
StrategyOf(answer) ==
  IF LowerTyped(answer) \in {"n", "narrow"} THEN "narrow"
  ELSE IF LowerTyped(answer) \in {"p", "pivot"} THEN "pivot"
  ELSE "expand"

\* new URL(r.url) throws for one of the results shown
ShowThrows(shown) == \E i \in 1..Len(shown) : ~shown[i].url.ok

\* The final results scored against the query of the last round, for
\* comparison
BuildFinalResultsLastQuery(opts, all) ==
  LET last == IF searchHistory = <<>> THEN <<>>
              ELSE searchHistory[Len(searchHistory)].query
      categorized == Categorize(DEFAULT_CATEGORIES,
                                ScoreAll(DefaultWeights, all, last))
  IN  [query |-> opts.initialQuery,
       providers |-> <<>>,
       totalResults |-> Len(categorized),
       results |-> categorized,
       errors |-> <<>>]
\* InteractiveSearch.buildFinalResults (its timestamp left out)
BuildFinalResults(opts, all) ==
  LET scored == ScoreAll(DefaultWeights, all, opts.initialQuery)
      categorized == Categorize(DEFAULT_CATEGORIES, scored)
      first == SelectSeq([i \in 1..Len(all) |-> i],
                         LAMBDA i : \A k \in 1..(i - 1) :
                                      all[k].source # all[i].source)
  IN  [query |-> opts.initialQuery,
       providers |-> [i \in 1..Len(first) |-> all[first[i]].source],
       totalResults |-> Len(categorized),
       results |-> categorized,
       errors |-> <<>>]

\* What handleCommand does before its first await or return: it returns
\* true ("continue") or false ("break"), exits the process, throws, asks
\* for the strategy, or calls searchLoop for `queries` at `depth`
Effect(kind, queries, depth, terms) ==
  [kind |-> kind, queries |-> queries, depth |-> depth, terms |-> terms]

\* InteractiveSearch.handleCommand(input, currentQuery, depth, suggestions,
\* refiner) for the frame `f`; the round's refiner is passed with the
\* suggestions
HandleCommand(input, f, selected, all, opts) ==
  LET cmd == LowerTyped(input.cmd)
      hasRefiner == f.pc = "prompt"
      return(kind) == Effect(kind, <<>>, f.depth, selected)
      refined(strategy, n) ==
        IF hasRefiner /\ selected # <<>>
          THEN Effect("calls",
                      Slice(BuildRefinedQueries(f.query, selected, strategy),
                            n),
                      f.depth + 1, selected)
          ELSE return("continue")
      numbers == ParseSelection(input.parts, Len(f.suggestions))
  IN  IF ~input.slash /\ input.arg = <<>> THEN return("continue")
      ELSE IF input.slash THEN
        CASE cmd \in {"done", "finish"} -> return("break")
          [] cmd \in {"quit", "exit"} -> return("exit")
          [] cmd = "add" ->
               IF input.arg # <<>>
                 THEN Effect("calls", <<f.query \o input.arg>>, f.depth + 1,
                             selected)
                 ELSE return("continue")
          [] cmd = "query" ->
               IF input.arg # <<>>
                 THEN Effect("calls", <<input.arg>>, 0, selected)
                 ELSE return("continue")
          [] cmd = "expand" -> refined("expand", 3)
          [] cmd = "narrow" -> refined("narrow", 2)
          [] cmd = "pivot" -> refined("pivot", 1)
          [] cmd = "results" ->
               IF ShowThrows(Slice(ScoreAll(DefaultWeights, all,
                                            opts.initialQuery), 20))
                 THEN return("throw") ELSE return("continue")
          [] cmd = "export" -> return("break")
          [] OTHER -> return("continue")
      ELSE IF hasRefiner /\ f.suggestions # <<>> /\ numbers # <<>>
        THEN Effect("strategy", <<>>, f.depth + 1,
                    [i \in 1..Len(numbers) |->
                       f.suggestions[numbers[i]].term])
      ELSE Effect("calls", <<f.query \o input.arg>>, f.depth + 1, selected)

\* searchLoop that starts its fetch at any depth, for comparison
CallNoConfirm(m, query, depth) ==
  [stack |-> Append(m.stack, Frame(query, depth, "searching")),
   searches |-> m.searches + 1]
\* searchLoop(query, depth) up to its first await: the confirmation prompt
\* at the maximum depth, else the fetch executeSearch starts
Call(m, query, depth) ==
  IF depth >= MaxDepthOf(options)
    THEN [m EXCEPT !.stack = Append(m.stack, Frame(query, depth, "confirm"))]
    ELSE [stack |-> Append(m.stack, Frame(query, depth, "searching")),
          searches |-> m.searches + 1]

\* The innermost searchLoop returns: the handleCommand that awaited it goes
\* on with its for loop, or returns false, which ends its own searchLoop
RECURSIVE Return(_)
Return(m) ==
  LET n == Len(m.stack) - 1
      rest == SubSeq(m.stack, 1, n)
  IN  IF n = 0 THEN [m EXCEPT !.stack = <<>>]
      ELSE IF rest[n].pending # <<>>
        THEN Call([m EXCEPT !.stack =
                     [rest EXCEPT ![n].pending = Tail(rest[n].pending)]],
                  Head(rest[n].pending), rest[n].depth + 1)
      ELSE Return([m EXCEPT !.stack = rest])

\* for (const q of queries) await this.searchLoop(q, depth); return false
CallEach(m, queries, depth) ==
  LET n == Len(m.stack)
  IN  IF queries = <<>> THEN Return(m)
      ELSE Call([m EXCEPT !.stack[n].pc = "calls",
                          !.stack[n].pending = Tail(queries)],
                Head(queries), depth)

\* The searches made so far and those the calls in progress will make
RECURSIVE Committed(_)
Committed(m) ==
  IF m.stack = <<>> THEN m.searches
  ELSE Committed([m EXCEPT !.stack = Tail(m.stack)])
         + Len(Head(m.stack).pending)
         + (IF Head(m.stack).pc = "confirm" THEN 1 ELSE 0)

Machine == [stack |-> stack, searches |-> searches]
Top == stack[Len(stack)]

\* The aggregate returned with the errors of the last round, for comparison
GoOnKeepingErrors(m, all) ==
  /\ stack' = m.stack
  /\ searches' = m.searches
  /\ sessionPc' = IF m.stack = <<>> THEN "returned" ELSE "running"
  /\ returned' = IF m.stack = <<>>
                   THEN <<[BuildFinalResults(options, all)
                             EXCEPT !.errors = roundErrors]>>
                   ELSE <<>>
\* The session goes on from m; with no searchLoop left run() closes the
\* readline interface and returns buildFinalResults()
GoOn(m, all) ==
  /\ stack' = m.stack
  /\ searches' = m.searches
  /\ sessionPc' = IF m.stack = <<>> THEN "returned" ELSE "running"
  /\ returned' = IF m.stack = <<>>
                   THEN <<BuildFinalResults(options, all)>> ELSE <<>>

\* process.exit(0), or an exception no caller catches: run() does not return
Stop(how) ==
  /\ stack' = <<>>
  /\ searches' = searches
  /\ sessionPc' = how
  /\ returned' = <<>>

InitSession ==
  /\ options \in [initialQuery : SessionQueries, maxDepth : MaxDepthOptions,
                  enabled : EnabledProviders]
  /\ allResults = <<>>
  /\ searchHistory = <<>>
  /\ selectedTerms = <<>>
  /\ stack = <<>>
  /\ searches = 0
  /\ nextOid = 0
  /\ doneEntered = FALSE
  /\ roundErrors = <<>>
  /\ sessionPc = "constructed"
  /\ returned = <<>>
  /\ lastStep = NoStep

\* run(): await this.searchLoop(this.options.initialQuery, 0)
Run ==
  /\ sessionPc = "constructed"
  /\ GoOn(Call(Machine, options.initialQuery, 0), allResults)
  /\ lastStep' = [NoStep EXCEPT !.op = "run"]
  /\ UNCHANGED <<options, allResults, searchHistory, selectedTerms, nextOid,
                 doneEntered, roundErrors>>
  /\ UNCHANGED otherThanSession

\* searchLoop: the answer to 'Continue deeper? (y/n): '
AnswerConfirm(answer) ==
  /\ sessionPc = "running"
  /\ Top.pc = "confirm"
  /\ IF LowerTyped(answer) = "y"
       THEN GoOn([stack |-> [stack EXCEPT ![Len(stack)].pc = "searching"],
                  searches |-> searches + 1], allResults)
       ELSE GoOn(Return(Machine), allResults)
  /\ lastStep' = [NoStep EXCEPT !.op = "confirm", !.answer = answer]
  /\ UNCHANGED <<options, allResults, searchHistory, selectedTerms, nextOid,
                 doneEntered, roundErrors>>
  /\ UNCHANGED otherThanSession

\* The round's results appended as they come, for comparison
MergeRoundAppend(all, fetched) == all \o fetched
\* searchLoop: this.deduplicator.deduplicate([...this.allResults, ...results])
MergeRound(all, fetched) == Deduplicate(DefaultDedupConfig, all \o fetched)

\* searchLoop: executeSearch resolves with `batch`, after a fetchAll in
\* which the providers of one of `failures` had errors
SearchResolvesWith(failures, batch) ==
  LET fetched == [i \in 1..Len(batch) |->
                    WithOid(ResultPool[batch[i]], nextOid + i)]
      merged == MergeRound(allResults, fetched)
      suggestions == ExtractSuggestions(Top.query, fetched)
      n == Len(stack)
  IN  /\ sessionPc = "running"
      /\ Top.pc = "searching"
      /\ \A i \in 1..Len(batch) : ResultPool[batch[i]].source \in options.enabled
      /\ \E failed \in failures :
           /\ \A k \in 1..Len(failed) :
                /\ failed[k] \in options.enabled
                /\ \A i \in 1..Len(batch) :
                     ResultPool[batch[i]].source # failed[k]
           /\ roundErrors' = [k \in 1..Len(failed) |->
                                [provider |-> failed[k],
                                 message |-> "search failed"]]
      /\ nextOid' = nextOid + Len(batch)
      /\ lastStep' = [NoStep EXCEPT !.op = "search", !.batch = batch]
      /\ IF batch = <<>>
           THEN /\ GoOn([Machine EXCEPT !.stack[n].pc = "zeroPrompt"],
                        allResults)
                /\ UNCHANGED <<allResults, searchHistory>>
         ELSE IF ShowThrows(Slice(fetched, 5))
           THEN /\ allResults' = merged
                /\ Stop("threw")
                /\ UNCHANGED searchHistory
         ELSE /\ allResults' = merged
              /\ searchHistory' =
                   Append(searchHistory,
                          [query |-> Top.query, depth |-> Top.depth,
                           results |-> [i \in 1..Len(fetched) |->
                                          fetched[i].oid],
                           sources |-> [i \in 1..Len(fetched) |->
                                          fetched[i].source],
                           suggestions |-> suggestions])
              /\ GoOn([Machine EXCEPT !.stack[n].pc = "prompt",
                                      !.stack[n].suggestions = suggestions],
                      merged)
      /\ UNCHANGED <<options, selectedTerms, doneEntered>>
      /\ UNCHANGED otherThanSession

\* A round in which no provider has errors
SearchResolves(batch) == SearchResolvesWith({<<>>}, batch)

\* searchLoop: the line typed at 'Select refinements or command: ' or at
\* 'Enter new query or /done: ', handled by handleCommand up to its first
\* await or its return, in a session of at most `cap` searches
HandleInputWithin(cap, input) ==
  LET eff == HandleCommand(input, Top, selectedTerms, allResults, options)
      n == Len(stack)
      room == cap - Committed(Machine)
  IN  /\ sessionPc = "running"
      /\ Top.pc \in {"prompt", "zeroPrompt"}
      /\ eff.kind = "calls" => Len(eff.queries) <= room
      /\ eff.kind = "strategy" =>
           \E a \in StrategyAnswers :
             Len(Slice(BuildRefinedQueries(Top.query, eff.terms,
                                           StrategyOf(a)), 3)) <= room
      /\ CASE eff.kind = "continue" ->
                IF Top.pc = "prompt" THEN GoOn(Machine, allResults)
                ELSE GoOn(Return(Machine), allResults)
           [] eff.kind = "break" -> GoOn(Return(Machine), allResults)
           [] eff.kind = "calls" ->
                GoOn(CallEach(Machine, eff.queries, eff.depth), allResults)
           [] eff.kind = "strategy" ->
                GoOn([Machine EXCEPT !.stack[n].pc = "strategy"], allResults)
           [] eff.kind = "exit" -> Stop("exited")
           [] eff.kind = "throw" -> Stop("threw")
      /\ selectedTerms' = eff.terms
      /\ doneEntered' =
           (doneEntered
              \/ (input.slash /\ LowerTyped(input.cmd) \in {"done", "finish"}))
      /\ lastStep' = [NoStep EXCEPT !.op = "input"]
      /\ UNCHANGED <<options, allResults, searchHistory, nextOid,
                     roundErrors>>
      /\ UNCHANGED otherThanSession

HandleInput(input) == HandleInputWithin(MaxSearches, input)

\* handleCommand: the answer to the strategy prompt, after a selection
AnswerStrategyWithin(cap, answer) ==
  LET queries == BuildRefinedQueries(Top.query, selectedTerms,
                                     StrategyOf(answer))
  IN  /\ sessionPc = "running"
      /\ Top.pc = "strategy"
      /\ Len(Slice(queries, 3)) <= cap - Committed(Machine)
      /\ GoOn(CallEach(Machine, Slice(queries, 3), Top.depth + 1), allResults)
      /\ lastStep' = [NoStep EXCEPT !.op = "strategy", !.answer = answer]
      /\ UNCHANGED <<options, allResults, searchHistory, selectedTerms,
                     nextOid, doneEntered, roundErrors>>
      /\ UNCHANGED otherThanSession

AnswerStrategy(answer) == AnswerStrategyWithin(MaxSearches, answer)

NextSession ==
  \/ Run
  \/ \E answer \in ConfirmAnswers : AnswerConfirm(answer)
  \/ \E batch \in Batches : SearchResolves(batch)
  \/ \E input \in Inputs : HandleInput(input)
  \/ \E answer \in StrategyAnswers : AnswerStrategy(answer)

\* A session just constructed.  The searches of a session are capped at
\* MaxSearches: a line that would start more is not typed.
StartSession ==
  InitSession /\ LimiterAtRest /\ DedupAtRest /\ ScoreAtRest /\ FetchAtRest
    /\ NormAtRest
    /\ CatAtRest
    /\ SelAtRest
    /\ RefAtRest
    /\ BmAtRest
    /\ SharedAtRest

SpecSession ==
  /\ StartSession
  /\ [][NextSession]_vars

(***************************************************************************)
(* The same session with room for the rounds of a refinement: two terms    *)
(* are selected in a round, and /expand, /narrow or /pivot is typed in a   *)
(* round that follows.                                                     *)
(***************************************************************************)
MaxRefineSearches == 5

RefineInputs ==
  {Text(<<"3,1-1">>, <<Number(3), Range(1, 1)>>),
   Command("expand", <<>>), Command("narrow", <<>>), Command("pivot", <<>>)}

RefineBatches == {<<>>, <<2, 3>>}

NextRefine ==
  \/ Run
  \/ \E answer \in ConfirmAnswers : AnswerConfirm(answer)
  \/ \E batch \in RefineBatches : SearchResolves(batch)
  \/ \E input \in RefineInputs : HandleInputWithin(MaxRefineSearches, input)
  \/ \E answer \in StrategyAnswers :
       AnswerStrategyWithin(MaxRefineSearches, answer)

SpecRefine ==
  /\ StartSession
  /\ [][NextRefine]_vars

(***************************************************************************)
(* The session with provider errors: in a round fetchAll may return the    *)
(* error of a provider along with the results of the others.               *)
(***************************************************************************)
\* The providers with errors in a round: none, or the one no batch is from
RoundFailures == {<<>>, <<"serp">>}

\* The searches of such a session
MaxFailingSearches == MaxSearches - 1

NextFailing ==
  \/ Run
  \/ \E answer \in ConfirmAnswers : AnswerConfirm(answer)
  \/ \E batch \in Batches : SearchResolvesWith(RoundFailures, batch)
  \/ \E input \in Inputs : HandleInputWithin(MaxFailingSearches, input)
  \/ \E answer \in StrategyAnswers :
       AnswerStrategyWithin(MaxFailingSearches, answer)

SpecFailing ==
  /\ StartSession
  /\ [][NextFailing]_vars

(***************************************************************************)
(* Claims about the RateLimiter                                            *)
(***************************************************************************)
\* What a call made now finds in the bucket: the tokens left by the last
\* call plus rate * elapsed time, at most the capacity max(1, rate).
Capacity == Max(OneToken, refillRate)
Accrued ==
  Min(Capacity, tokens + ((now - lastRefill) * refillRate) \div TicksPerSecond)

\* C5: after any sequence of acquire, tryAcquire and getAvailableTokens calls
\* interleaved with any elapsed time, the token count never exceeds the
\* capacity max(1, requestsPerSecond).
C5_TokensNeverExceedCapacity == tokens <= Capacity

\* C5 witness: a call found more than the capacity accrued and refill()
\* clamped the count to the capacity.
C5_Witness ==
  /\ lastCall.op = "getAvailableTokens"
  /\ lastCall.clamped
  /\ tokens = Capacity
  /\ now > 0

\* C6: for a lone caller, acquire() with at least one token consumes one and
\* returns without suspending; with less it suspends for
\* (1 - tokens) / refillRate seconds and then consumes one token; it always
\* returns in the end and the token count is never negative.
C6_AcquireLoneCaller ==
  /\ [][lastCall'.op = "acquire" =>
          IF Accrued >= OneToken
            THEN /\ lastCall'.ret = "returned"
                 /\ callerPc'[1] = "idle"
                 /\ tokens' = Accrued - OneToken
            ELSE /\ lastCall'.ret = "suspended"
                 /\ callerPc'[1] = "sleeping"
                 /\ tokens' = Accrued
                 /\ (wakeAt'[1] - now) * refillRate
                      >= (OneToken - Accrued) * TicksPerSecond
                 /\ (wakeAt'[1] - now - 1) * refillRate
                      < (OneToken - Accrued) * TicksPerSecond]_vars
  /\ [][lastCall'.op = "resume" =>
          /\ now >= wakeAt[1]
          /\ tokens' = Accrued - OneToken
          /\ callerPc'[1] = "idle"]_vars
  /\ [](tokens >= 0)
  /\ ((callerPc[1] = "sleeping") ~> (callerPc[1] = "idle"))

\* C6 witness: an acquire() that had to wait has returned, leaving a token
\* count that is not negative.
C6_Witness ==
  /\ lastCall.op = "resume"
  /\ lastCall.ret = "returned"
  /\ callerPc[1] = "idle"
  /\ tokens >= 0

\* C7: tryAcquire() never waits; it returns true and consumes exactly one
\* token iff at least one whole token has accrued, else it returns false and
\* consumes nothing; at rate 0.5 an empty bucket gives false after 1 second
\* and true after 2 seconds.
C7_TryAcquire ==
  [][lastCall'.op = "tryAcquire" =>
       /\ lastCall'.ret \in {"true", "false"}
       /\ (lastCall'.ret = "true") <=> (Accrued >= OneToken)
       /\ tokens' = IF lastCall'.ret = "true" THEN Accrued - OneToken ELSE Accrued
       /\ callerPc' = callerPc
       /\ now' = now
       /\ (refillRate * 2 = OneToken /\ tokens = 0) =>
            /\ (now - lastRefill = TicksPerSecond) => lastCall'.ret = "false"
            /\ (now - lastRefill = 2 * TicksPerSecond) => lastCall'.ret = "true"]_vars

\* C7 witness: at rate 0.5 the bucket was emptied at time 0 and a tryAcquire()
\* made 2 seconds later returned true.
C7_Witness ==
  /\ refillRate * 2 = OneToken
  /\ lastCall.op = "tryAcquire"
  /\ lastCall.ret = "true"
  /\ now = 2 * TicksPerSecond
  /\ tokens = 0

\* C28: with several callers in acquire() on one limiter the token count
\* never becomes negative, that is, no more acquires have completed than
\* the capacity and the refills allow.
C28_TokensNeverNegative == tokens >= 0

\* C28, what the code gives: every caller but one can overdraw the bucket
\* by one token.
C28_OverdrawnByOtherCallers == tokens >= 0 - (NumCallers - 1) * OneToken

(***************************************************************************)
(* Claims about the Deduplicator                                           *)
(***************************************************************************)
\* a and b are one result up to the metadata a merge may have changed
SameButMetadata(a, b) ==
  [a EXCEPT !.metadata = NoMetadata] = [b EXCEPT !.metadata = NoMetadata]

\* C2: deduplicate(results) returns a subsequence of the input, in input
\* order, in which no two results have the same dedup key, and which holds,
\* for every key of the input, the first input result with that key.
C2_FirstSeenSurvives ==
  dedupPc = "done" =>
    LET in == dedupInput
        out == dedupOutput
        Key(r) == GenerateKey(dedupConfig, r)
    IN  /\ \A i \in 1..Len(out) :
             /\ out[i].oid \in 1..Len(in)
             /\ SameButMetadata(out[i], in[out[i].oid])
        /\ \A i, j \in 1..Len(out) : i < j => out[i].oid < out[j].oid
        /\ \A i, j \in 1..Len(out) : i # j => Key(out[i]) # Key(out[j])
        /\ \A j \in 1..Len(in) :
             \E i \in 1..Len(out) :
               /\ Key(in[out[i].oid]) = Key(in[j])
               /\ out[i].oid <= j
               /\ \A k \in 1..(out[i].oid - 1) : Key(in[k]) # Key(in[j])

\* C2 witness: the input held the same page under two spellings with another
\* result between them, and the call dropped the later spelling.
C2_Witness ==
  /\ dedupPc = "done"
  /\ Len(dedupInput) = 3
  /\ Len(dedupOutput) = 2
  /\ dedupInput[1].url # dedupInput[3].url
  /\ GenerateKey(dedupConfig, dedupInput[1])
       = GenerateKey(dedupConfig, dedupInput[3])
  /\ dedupOutput[1].oid = 1
  /\ dedupOutput[2].oid = 2

(***************************************************************************)
(* Claims about the Scorer                                                 *)
(***************************************************************************)
\* C8: every ScoredResult of scoreAll has 0 <= score <= 1, for every
\* timestamp, past or future, every URL and query and every weight
\* configuration the schema accepts.
C8_ScoreInUnitRange ==
  scorePc = "done" =>
    \A i \in 1..Len(scoreOutput) :
      /\ scoreOutput[i].score >= 0
      /\ scoreOutput[i].score <= ScoreScale * WeightScale

\* C8, the same with the default weights (which sum to 1): only a timestamp
\* in the future is left to push a score above 1.
C8_DefaultWeightsInUnitRange ==
  (scorePc = "done" /\ scoreConfig = DefaultWeights) =>
    \A i \in 1..Len(scoreOutput) :
      scoreOutput[i].score <= ScoreScale * WeightScale

(***************************************************************************)
(* Claims about the Fetcher                                                *)
(***************************************************************************)
\* The names of a list of ProviderErrors
ErrorTags == [i \in 1..Len(errors) |-> errors[i].provider]

CountIn(seq, x) == Cardinality({i \in 1..Len(seq) : seq[i] = x})

RECURSIVE FetchedBy(_)
\* The results fetched by the providers of a list, in the order of the list
FetchedBy(names) ==
  IF names = <<>> THEN <<>>
  ELSE outcome[Head(names)].fetched \o FetchedBy(Tail(names))

\* C1: fetchAll never rejects because a provider failed: it goes on until it
\* returns, and then every provider task has settled, each provider is
\* exactly once in `providers` (it succeeded) or in `errors` (its search
\* failed after the retries, tagged with its name), and `results` holds the
\* results of exactly the succeeded providers.
C1_FetchAllIsolatesFailures ==
  /\ fetchPc = "returned" \/ ENABLED NextFetch
  /\ fetchPc = "returned" =>
       /\ \A n \in Tasks : taskPc[n] = "settled"
       /\ \A n \in Tasks :
            /\ CountIn(successfulProviders, n) + CountIn(ErrorTags, n) = 1
            /\ CountIn(successfulProviders, n) = 1
                 <=> outcome[n].kind \in {"hit", "searched"}
            /\ CountIn(ErrorTags, n) = 1
                 <=> (outcome[n].kind = "failed"
                        /\ searchCalls[n] = retries + 1)
       /\ \A i \in 1..Len(successfulProviders) : successfulProviders[i] \in Tasks
       /\ \A i \in 1..Len(errors) : errors[i].provider \in Tasks
       /\ results = FetchedBy(successfulProviders)

\* C1 witness: fetchAll returned with one provider failed and another
\* succeeded with results.
C1_Witness ==
  /\ fetchPc = "returned"
  /\ Len(errors) = 1
  /\ Len(successfulProviders) >= 1
  /\ Len(results) > 0

\* C3: at every moment at most `concurrency` provider tasks are running; with
\* more providers than that the others start only as running ones settle,
\* and every provider is started in the end.
C3_BoundedConcurrency ==
  /\ [](Cardinality(Running) <= concurrency)
  /\ [][\A n \in Tasks :
          (taskPc[n] = "queued" /\ taskPc'[n] # "queued") =>
            Cardinality(Running) < concurrency]_vars
  /\ <>(\A n \in Tasks : taskPc[n] # "queued")

\* C3 witness: all four providers with the default concurrency 3: three
\* tasks are running and the fourth is waiting for one of them to settle.
C3_Witness ==
  /\ Len(providers) = 4
  /\ concurrency = DefaultConcurrency
  /\ Cardinality(Running) = concurrency
  /\ taskPc["serp"] = "queued"

C21_CacheFailureNeverFailsSearch ==
  \A n \in Tasks :
    taskPc[n] = "settled" =>
      /\ outcome[n].kind = "hit" \/ searchCalls[n] >= 1
      /\ CountIn(ErrorTags, n) > 0 => searchCalls[n] = retries + 1
      /\ outcome[n].cacheSet =>
           /\ CountIn(successfulProviders, n) = 1
           /\ CountIn(ErrorTags, n) = 0
           /\ outcome[n].fetched # <<>>

\* C21, what the code gives: a provider whose cache lookup returns a value
\* that is no array is reported in `errors` without having been searched;
\* every other provider is treated as the claim says.
C21_OnlyMalformedValueFails ==
  \A n \in Tasks :
    taskPc[n] = "settled" =>
      IF outcome[n].kind = "threw"
        THEN /\ cacheFiles[n] = CorruptEntry
             /\ searchCalls[n] = 0
             /\ CountIn(ErrorTags, n) = 1
             /\ CountIn(successfulProviders, n) = 0
        ELSE /\ outcome[n].kind = "hit" \/ searchCalls[n] >= 1
             /\ CountIn(ErrorTags, n) > 0 => searchCalls[n] = retries + 1
             /\ outcome[n].cacheSet =>
                  /\ CountIn(successfulProviders, n) = 1
                  /\ CountIn(ErrorTags, n) = 0

(***************************************************************************)
(* Claims about the InteractiveSearch session                              *)
(***************************************************************************)
\* The identities of the results of an array, in order
Oids(all) == [i \in 1..Len(all) |-> all[i].oid]

\* a is b with some elements left out
RECURSIVE IsSubsequence(_, _)
IsSubsequence(a, b) ==
  IF a = <<>> THEN TRUE
  ELSE IF b = <<>> THEN FALSE
  ELSE IF Head(a) = Head(b) THEN IsSubsequence(Tail(a), Tail(b))
  ELSE IsSubsequence(a, Tail(b))

DistinctKeys(all) ==
  \A i, j \in 1..Len(all) :
    i # j => /\ all[i].oid # all[j].oid
             /\ GenerateKey(DefaultDedupConfig, all[i])
                  # GenerateKey(DefaultDedupConfig, all[j])

\* C9: after every round of a session allResults has pairwise-distinct dedup
\* keys and still holds every result it held before the round, in the same
\* relative order; a round whose search yields no result, and a refused
\* depth confirmation, leave allResults as it was.
C9_AllResultsOnlyGrows ==
  /\ [](DistinctKeys(allResults))
  /\ [][/\ IsSubsequence(Oids(allResults), Oids(allResults'))
        /\ (lastStep'.op = "search" /\ lastStep'.batch = <<>>)
             => allResults' = allResults
        /\ (lastStep'.op = "confirm" /\ LowerTyped(lastStep'.answer) # "y")
             => allResults' = allResults]_vars

\* C9 witness: a second round brought a duplicate of a result of the first
\* round, which was merged into it, and a new result, which was added.
C9_Witness ==
  /\ Len(searchHistory) = 2
  /\ Len(allResults) = 2
  /\ Len(searchHistory[1].results) = 1
  /\ searchHistory[1].results[1] = allResults[1].oid
  /\ allResults[1].metadata.map["sources"] = Arr(<<"brave", "duckduckgo">>)
  /\ allResults[2].oid \in {searchHistory[2].results[i] : i \in 1..2}

\* C10: once /done or /finish has been typed the session makes no further
\* provider search, whatever the depth and also inside one of several
\* refined queries of an expansion.
C10_DoneEndsSearching ==
  [][doneEntered' => searches' = searches]_vars

\* C10, the rest: a /done typed at the prompt of the only searchLoop in
\* progress makes run() return the aggregate of the accumulated results.
C10_DoneReturnsAggregate ==
  [][(/\ lastStep'.op = "input"
      /\ doneEntered' /\ ~doneEntered
      /\ Len(stack) = 1)
       => /\ sessionPc' = "returned"
          /\ returned' = <<BuildFinalResults(options, allResults)>>]_vars

\* The step answered the depth confirmation with something other than y
Refused == lastStep'.op = "confirm" /\ LowerTyped(lastStep'.answer) # "y"

\* C11: a round at a depth of maxDepth or more starts its search only on the
\* answer y to its confirmation prompt; on any other answer the round ends
\* without a search and leaves the accumulated results and the history alone.
C11_DepthConfirmation ==
  [][/\ (searches' # searches) =>
          (/\ searches' = searches + 1
           /\ stack' # <<>>
           /\ stack'[Len(stack')].pc = "searching"
           /\ (stack'[Len(stack')].depth >= MaxDepthOf(options)) =>
                (/\ lastStep'.op = "confirm"
                 /\ LowerTyped(lastStep'.answer) = "y"
                 /\ Top.pc = "confirm"
                 /\ Len(stack') = Len(stack)
                 /\ stack'[Len(stack')].query = Top.query
                 /\ stack'[Len(stack')].depth = Top.depth))
     /\ Refused =>
          (/\ Top.pc = "confirm"
           /\ searches' = searches
           /\ allResults' = allResults
           /\ searchHistory' = searchHistory
           /\ \A i \in 1..Len(stack') :
                i >= Len(stack) => stack'[i].pc = "confirm")]_vars

\* C11 witness: after a first round with results, the confirmation of the
\* first of two follow-up rounds was refused; the second one is asking.
C11_Witness ==
  /\ lastStep.op = "confirm"
  /\ lastStep.answer = "n"
  /\ searches = 1
  /\ Len(searchHistory) = 1
  /\ allResults # <<>>
  /\ Len(stack) = 2
  /\ Top.pc = "confirm"
  /\ Top.depth >= MaxDepthOf(options)
  /\ stack[1].pending = <<>>

\* The result `r` as the final assembly returns it: scored against `query`
\* and categorized
Assembled(r, query) ==
  [oid |-> r.oid, url |-> r.url, title |-> r.title, snippet |-> r.snippet,
   source |-> r.source, timestamp |-> r.timestamp, metadata |-> r.metadata,
   score |-> TotalScore(DefaultWeights, r, query),
   categories |-> MatchCategories(DEFAULT_CATEGORIES, r)]

\* C12: the AggregatedResults a session returns holds exactly the accumulated
\* results, each scored against the initial query of the session and
\* categorized, in descending order of score, and totalResults is their
\* number.
C12_FinalAggregate ==
  sessionPc = "returned" =>
    LET final == returned[1]
        n == Len(allResults)
    IN  /\ final.query = options.initialQuery
        /\ final.totalResults = n
        /\ Len(final.results) = n
        /\ \A j \in 1..n :
             Cardinality({i \in 1..n :
                            final.results[i]
                              = Assembled(allResults[j],
                                          options.initialQuery)}) = 1
        /\ \A i \in 1..(n - 1) :
             final.results[i].score >= final.results[i + 1].score

\* C12 witness: a session returned two results after a round for another
\* query, against which they would have scored otherwise.
C12_Witness ==
  /\ sessionPc = "returned"
  /\ Len(allResults) = 2
  /\ Len(searchHistory) = 2
  /\ searchHistory[2].query # options.initialQuery
  /\ \E j \in 1..2 :
       TotalScore(DefaultWeights, allResults[j], searchHistory[2].query)
         # TotalScore(DefaultWeights, allResults[j], options.initialQuery)

\* The providers that returned a result in some round of the session
ProvidersSeen ==
  UNION {{searchHistory[k].sources[i] :
            i \in 1..Len(searchHistory[k].sources)} :
         k \in 1..Len(searchHistory)}

\* C13: the providers list of the AggregatedResults a session returns names,
\* each once, exactly the providers that returned at least one result in
\* some round.
C13_ProvidersSeenInAnyRound ==
  sessionPc = "returned" =>
    LET listed == returned[1].providers
    IN  /\ \A i, j \in 1..Len(listed) : i # j => listed[i] # listed[j]
        /\ {listed[i] : i \in 1..Len(listed)} = ProvidersSeen

\* C13, what the code gives: the providers of the results that survived
\* deduplication, each once.
C13_ProvidersOfSurvivors ==
  sessionPc = "returned" =>
    LET listed == returned[1].providers
    IN  /\ \A i, j \in 1..Len(listed) : i # j => listed[i] # listed[j]
        /\ {listed[i] : i \in 1..Len(listed)}
             = {allResults[i].source : i \in 1..Len(allResults)}

StrategyCommands == {"expand", "narrow", "pivot"}

\* The rounds a strategy command may start
RoundLimit(c) == CASE c = "expand" -> 3 [] c = "narrow" -> 2 [] c = "pivot" -> 1

\* The step handled /expand, /narrow or /pivot, typed as `c`
Typed(c) == HandleInputWithin(MaxRefineSearches, Command(c, <<>>))

C27_WitnessNothingSelected ==
  /\ lastStep.op = "input"
  /\ selectedTerms = <<>>
  /\ Len(stack) = 1
  /\ Top.pc = "prompt"
  /\ searches = 1

\* C30: the AggregatedResults a session returns has an empty `errors`
\* list, whatever errors the providers had in its rounds.
C30_ErrorsNotRetained ==
  sessionPc = "returned" => returned[1].errors = <<>>

\* C30 witness: a session returned results after a last round in which a
\* provider had an error.
C30_Witness ==
  /\ sessionPc = "returned"
  /\ roundErrors # <<>>
  /\ returned[1].totalResults > 0
  /\ returned[1].errors = <<>>

(***************************************************************************)
(* Claims about the metadata merge of the Deduplicator                     *)
(***************************************************************************)
\* The results of the input that deduplicate merged into the survivor `o`:
\* those after it with its key
Absorbed(o) ==
  {j \in 1..Len(dedupInput) :
     /\ j > o.oid
     /\ GenerateKey(dedupConfig, dedupInput[j])
          = GenerateKey(dedupConfig, dedupInput[o.oid])}

\* The metadata keys of a result
Keys(r) == DOMAIN r.metadata.map

\* C14: a survivor gets the metadata keys only its duplicates had, and keeps
\* its own value for every key it had before the call (sources, which the
\* merge maintains itself, aside).
C14_SurvivorValuesPreserved ==
  dedupPc = "done" =>
    \A i \in 1..Len(dedupOutput) :
      LET o == dedupOutput[i]
          before == dedupInput[o.oid]
      IN  /\ \A j \in Absorbed(o) : Keys(dedupInput[j]) \subseteq Keys(o)
          /\ \A k \in Keys(before) \ {"sources"} :
               o.metadata.map[k] = before.metadata.map[k]

\* C14, what the code gives: the keys of the duplicates are added, and a key
\* that the last duplicate carrying it shares with the survivor has the
\* duplicate's value.
C14_LastDuplicateWins ==
  dedupPc = "done" =>
    \A i \in 1..Len(dedupOutput) :
      LET o == dedupOutput[i]
          before == dedupInput[o.oid]
      IN  /\ \A j \in Absorbed(o) : Keys(dedupInput[j]) \subseteq Keys(o)
          /\ \A k \in Keys(o) \ {"sources"} :
               LET carriers == {j \in Absorbed(o) : k \in Keys(dedupInput[j])}
               IN  o.metadata.map[k] =
                     IF carriers = {} THEN before.metadata.map[k]
                     ELSE dedupInput[CHOOSE j \in carriers :
                                       \A m \in carriers : m <= j
                                    ].metadata.map[k]

\* The survivor `o` lists its own provider and that of every duplicate it
\* absorbed in an array metadata.sources
ListsItsSources(o) ==
  /\ "sources" \in Keys(o)
  /\ o.metadata.map["sources"].arr
  /\ LET listed == o.metadata.map["sources"].v
     IN  /\ Len(listed) >= 2
         /\ \A j \in Absorbed(o) \cup {o.oid} :
              Includes(listed, dedupInput[j].source)

\* C15: after deduplicate every survivor that absorbed a duplicate has a
\* sources list holding its own provider tag and that of every duplicate,
\* whatever metadata the results carried before.
C15_SourcesListed ==
  dedupPc = "done" =>
    \A i \in 1..Len(dedupOutput) :
      Absorbed(dedupOutput[i]) # {} => ListsItsSources(dedupOutput[i])

\* C15, what the code gives: the list is as claimed when no result of the
\* input comes with a metadata key sources of its own.
C15_SourcesListedWhenNoneCarried ==
  (/\ dedupPc = "done"
   /\ \A j \in 1..Len(dedupInput) : "sources" \notin Keys(dedupInput[j]))
    => \A i \in 1..Len(dedupOutput) :
         Absorbed(dedupOutput[i]) # {} => ListsItsSources(dedupOutput[i])

\* C17: deduplicate has no side effect: when it has returned, the input list
\* and each of its objects, metadata included, are as they were at the call.
C17_DeduplicateLeavesInput ==
  dedupPc = "done" =>
    DeduplicateInput(dedupConfig, dedupInput) = dedupInput

\* C17, what the code gives: the input list keeps its objects and their
\* order, and an object differs from what it was only in its metadata, and
\* only if it absorbed a duplicate.
C17_OnlySurvivorMetadataChanges ==
  dedupPc = "done" =>
    LET after == DeduplicateInput(dedupConfig, dedupInput)
    IN  /\ Len(after) = Len(dedupInput)
        /\ \A j \in 1..Len(after) :
             /\ SameButMetadata(after[j], dedupInput[j])
             /\ after[j] # dedupInput[j] =>
                  /\ \E i \in 1..Len(dedupOutput) : dedupOutput[i].oid = j
                  /\ Absorbed(dedupInput[j]) # {}

\* C19: a result whose URL cannot be parsed never aborts an interactive
\* session: the preview of a round, /results and the final assembly go on
\* with a fallback, so run() never ends by throwing.
C19_UnparseableUrlTolerated ==
  sessionPc # "threw"

\* C19, what the code gives: the session throws only when it prints results
\* with an unparseable URL among them, in the preview of the round that
\* fetched one or at /results; merging such a result into allResults (the
\* deduplication) is done by then.
C19_ThrowsOnlyWhenShowing ==
  sessionPc = "threw" =>
    /\ \E i \in 1..Len(allResults) : ~allResults[i].url.ok
    /\ \/ /\ lastStep.op = "search"
          /\ \E i \in 1..Len(lastStep.batch) :
               ~ResultPool[lastStep.batch[i]].url.ok
       \/ lastStep.op = "input"

\* C20: in an interactive session whose configuration enables no usable
\* provider a search fails with an error before any fetch: no call of
\* fetchAll resolves, so no round is reported as having found zero results.
C20_NoProviderIsAnError ==
  options.enabled = {} => lastStep.op # "search"

\* C20, what the code gives: without providers the session runs, every
\* round finds zero results and nothing is thrown.
C20_NoProviderFindsNothing ==
  (options.enabled = {} /\ sessionPc # "constructed") =>
    /\ allResults = <<>>
    /\ searchHistory = <<>>
    /\ sessionPc # "threw"
    /\ lastStep.op = "search" =>
         (lastStep.batch = <<>> /\ Top.pc = "zeroPrompt")

(***************************************************************************)
(* Claims about normalizeUrl                                               *)
(***************************************************************************)
\* C16: normalizeUrl is idempotent: applied to a string it returned, it
\* returns that string, for parseable and unparseable inputs alike.
C16_NormalizeUrlIdempotent ==
  [][normCalls >= 1 => normUrl' = normUrl]_vars

\* C16, what the code gives: the second call changes nothing unless the
\* first left a trailing slash after a path segment or a leading www label.
C16_IdempotentButSlashAndWww ==
  [][(/\ normCalls >= 1
      /\ normUrl.ok =>
            /\ ~(normUrl.path # <<>> /\ normUrl.slashes > 0)
            /\ ~(Len(normUrl.host) > 1 /\ normUrl.host[1] = "www"))
       => normUrl' = normUrl]_vars

(***************************************************************************)
(* Claims about the Categorizer                                            *)
(***************************************************************************)
\* The positions in this.categories of the categories with a rule that
\* matches the result
MatchingCategories(result) ==
  {k \in 1..Len(categories) :
     \E r \in 1..Len(categories[k].rules) :
       RuleMatches(categories[k].rules[r], result)}

\* C18: categorize gives every result a non-empty categories list: the name
\* of each category with a matching rule, once per category and in the order
\* of this.categories, or the single name General when no category matches.
C18_CategoriesInDefinitionOrder ==
  catPc = "done" =>
    /\ Len(catOutput) = Len(catInput)
    /\ \A i \in 1..Len(catOutput) :
         LET got == catOutput[i].categories
             hit == MatchingCategories(catInput[i])
         IN  /\ got # <<>>
             /\ hit = {} => got = <<"General">>
             /\ hit # {} =>
                  /\ Len(got) = Cardinality(hit)
                  /\ \A j \in 1..Len(got) :
                       \E k \in hit :
                         /\ Cardinality({h \in hit : h <= k}) = j
                         /\ got[j] = categories[k].name

\* A result that all three rules of Documentation match is listed once under
\* it, next to a result that no category matches.
C18_Witness ==
  /\ catPc = "done"
  /\ categories = DEFAULT_CATEGORIES
  /\ Len(catOutput) = 2
  /\ catOutput[1].categories = <<"Documentation">>
  /\ Cardinality({r \in 1..Len(categories[1].rules) :
                    RuleMatches(categories[1].rules[r], catInput[1])}) = 3
  /\ catOutput[2].categories = <<"General">>

\* Two categories match a result, and their names come in definition order.
C18_WitnessTwoCategories ==
  /\ catPc = "done"
  /\ \E i \in 1..Len(catOutput) :
       catOutput[i].categories = <<"News", "Video">>

\* C25: within one fetchAll a provider whose cache lookup missed is searched
\* at most retries + 1 times, one attempt after the other, no attempt is made
\* once one succeeded, and the provider is in `errors` only after
\* retries + 1 attempts failed.
C25_AtMostRetriesPlusOneAttempts ==
  /\ [](\A n \in Tasks :
         /\ searchCalls[n] <= retries + 1
         /\ outcome[n].kind = "failed" => searchCalls[n] = retries + 1
         /\ (\E i \in 1..Len(errors) : errors[i].provider = n)
              => outcome[n].kind = "failed")
  /\ [][\A n \in Tasks :
          searchCalls'[n] # searchCalls[n] =>
            /\ searchCalls'[n] = searchCalls[n] + 1
            /\ taskPc'[n] = "search"
            /\ outcome[n] = NoOutcome]_vars

\* C25 witness: with the default two retries one provider failed on its
\* third attempt and another answered on its second.
C25_Witness ==
  /\ fetchPc = "returned"
  /\ retries = DefaultRetries
  /\ \E n, m \in Tasks :
       /\ outcome[n].kind = "failed"
       /\ searchCalls[n] = DefaultRetries + 1
       /\ \E i \in 1..Len(errors) : errors[i].provider = n
       /\ outcome[m].kind = "searched"
       /\ searchCalls[m] = 2

\* The instance `k` has had no addCategory and no removeCategory
Unedited(k) == ~categorizers[k].edited

\* C29: addCategory and removeCategory change only the instance they are
\* called on: a Categorizer constructed with the defaults, before or after,
\* and not edited itself, holds the original default list and categorizes
\* with it.
C29_DefaultsStayOriginal ==
  /\ \A k \in 1..Len(categorizers) :
       (~categorizers[k].custom /\ Unedited(k))
         => CategoriesOf(k) = DEFAULT_CATEGORIES
  /\ (/\ sharedCall.op = "categorize"
      /\ sharedCall.pristine
      /\ ~categorizers[sharedCall.on].custom)
       => sharedCall.output = Categorize(DEFAULT_CATEGORIES, sharedCall.input)

\* C29, what the code gives: an instance constructed with an array of its
\* own keeps it whatever is done to other instances, and edits of it leave
\* the default list alone.
C29_CustomInstancesAreIsolated ==
  /\ \A k \in 1..Len(categorizers) :
       (categorizers[k].custom /\ Unedited(k))
         => CategoriesOf(k) = categorizers[k].given
  /\ (\A k \in 1..Len(categorizers) :
        categorizers[k].custom \/ Unedited(k))
       => defaultCategories = DEFAULT_CATEGORIES

(***************************************************************************)
(* Claims about parseSelection                                             *)
(***************************************************************************)
\* A part is a number when it is made of digits only, a range when it is
\* digits, a dash and digits, and malformed otherwise
IsNumberText(text) ==
  text # <<>> /\ \A i \in 1..Len(text) : text[i] \in Digits

IsRangeText(text) ==
  \E at \in 2..(Len(text) - 1) :
    /\ text[at] = "-"
    /\ IsNumberText(SubSeq(text, 1, at - 1))
    /\ IsNumberText(SubSeq(text, at + 1, Len(text)))

\* The integers of [1, max] a part names
Named(text, max) ==
  IF IsNumberText(text) THEN {ParseInt(text)} \cap (1..max)
  ELSE IF IsRangeText(text)
    THEN LET at == CHOOSE i \in 1..Len(text) : text[i] = "-"
         IN  (ParseInt(SubSeq(text, 1, at - 1))
                ..ParseInt(SubSeq(text, at + 1, Len(text)))) \cap (1..max)
  ELSE {}

Ascending(numbers) ==
  \A i, j \in 1..Len(numbers) : i < j => numbers[i] < numbers[j]

\* C22: parseSelection returns, ascending and without duplicates, exactly
\* the integers of [1, max] the parts name: a number if it is in [1, max],
\* the integers of a range that lie in [1, max], nothing for a malformed part.
C22_ParseSelectionExact ==
  selPc = "done" =>
    /\ Ascending(selOutput)
    /\ {selOutput[i] : i \in 1..Len(selOutput)}
         = UNION {Named(selInput[i], selMax) : i \in 1..Len(selInput)}

\* C22, what the code gives: the result is ascending, without duplicates and
\* within [1, max], and it is the claimed one whenever every part is a number
\* or a range that does not start at 0.
C22_ExactButZeroAndMalformed ==
  selPc = "done" =>
    /\ Ascending(selOutput)
    /\ \A i \in 1..Len(selOutput) : selOutput[i] \in 1..selMax
    /\ (\A i \in 1..Len(selInput) :
          \/ IsNumberText(selInput[i])
          \/ /\ IsRangeText(selInput[i])
             /\ ReadPart(selInput[i]).a # 0)
         => {selOutput[i] : i \in 1..Len(selOutput)}
              = UNION {Named(selInput[i], selMax) : i \in 1..Len(selInput)}

\* C22, the example of the claim in the digits of the model: '1,3-10,0' with
\* max 10 gives the like of [1,3,4,5,7].
C22_Example ==
  ParseSelectionText(<<<<"1">>, <<"3", "-", "1", "0">>, <<"0">>>>, 10)
    = <<1, 3, 4, 5, 6, 7, 8, 9, 10>>

(***************************************************************************)
(* Claims about the QueryRefiner                                           *)
(***************************************************************************)
\* The queries a strategy constructs from the selected terms, in order
Constructed(query, terms, strategy) ==
  LET each(f(_)) == [i \in 1..Len(terms) |-> f(terms[i])]
      Expand(t) == query \o t
      Narrow(t) == <<Quote>> \o query \o <<Quote, Quote>> \o t \o <<Quote>>
      Pivot(t) == t
  IN  CASE strategy = "expand" ->
             each(Expand)
               \o (IF Len(terms) >= 2
                     THEN <<query \o terms[1] \o terms[2]>> ELSE <<>>)
        [] strategy = "narrow" -> each(Narrow)
        [] strategy = "pivot" ->
             each(Pivot)
               \o (IF Len(terms) >= 2 THEN <<JoinTerms(terms)>> ELSE <<>>)

\* The position at which a query is first constructed
FirstAt(constructed, q) ==
  CHOOSE i \in 1..Len(constructed) :
    /\ constructed[i] = q
    /\ \A k \in 1..(i - 1) : constructed[k] # q

\* C23: buildRefinedQueries returns the queries its strategy constructs
\* from the selected terms, each once, in the order of construction.
C23_RefinedQueriesInOrder ==
  refPc.build = "done" =>
    LET made == Constructed(refQuery, refBuilt.terms, refBuilt.strategy)
        got == refBuilt.queries
    IN  /\ {got[i] : i \in 1..Len(got)} = {made[i] : i \in 1..Len(made)}
        /\ \A i, j \in 1..Len(got) :
             i < j => FirstAt(made, got[i]) < FirstAt(made, got[j])

\* C23 witness: the example of the claim, base 'typescript' and the terms
\* react and node expanded.
C23_Witness ==
  /\ refPc.build = "done"
  /\ refQuery = <<"typescript">>
  /\ refBuilt.terms = <<<<"react">>, <<"node">>>>
  /\ refBuilt.strategy = "expand"
  /\ refBuilt.queries = <<<<"typescript", "react">>, <<"typescript", "node">>,
                          <<"typescript", "react", "node">>>>

\* A query constructed twice is returned once.
C23_WitnessDuplicate ==
  /\ refPc.build = "done"
  /\ refBuilt.terms = <<<<"react">>, <<"react">>>>
  /\ refBuilt.strategy = "pivot"
  /\ refBuilt.queries = <<<<"react">>, <<"react", "react">>>>

\* The words a suggestion is made of must not be suggested
Excluded(query) == StopWords \cup OriginalTerms(query)

\* C24: with the default options no suggestion extractSuggestions returns is
\* a stop-word or a term of the original query, or a bigram with such a word.
C24_NoExcludedWordSuggested ==
  refPc.extract = "done" =>
    \A i \in 1..Len(refSuggestions) :
      \A w \in 1..Len(refSuggestions[i].term) :
        refSuggestions[i].term[w] \notin Excluded(refQuery)

\* C24, what the code gives: the single-term suggestions are free of
\* stop-words and original terms; the bigrams are not filtered.
C24_NoExcludedSingleTerm ==
  refPc.extract = "done" =>
    \A i \in 1..Len(refSuggestions) :
      Len(refSuggestions[i].term) = 1 =>
        refSuggestions[i].term[1] \notin Excluded(refQuery)

(***************************************************************************)
(* Claims about the BM25Ranker                                             *)
(***************************************************************************)
\* scoreAll has just returned
Scored == bmArgs.op = "scoreAll"

\* C26: after every scoreAll(results, query) the scores returned are those
\* computed from the statistics of exactly `results`: the index the ranker
\* holds is the index of `results`, and so are the scores.
C26_ScoresFromThisResultSet ==
  Scored =>
    /\ Index = BuildIndex(bmArgs.results)
    /\ bmScored = ScoreWith(BuildIndex(bmArgs.results), bmArgs.results,
                            bmArgs.query)

\* C26, what the code gives: the statistics are those of `results` whenever
\* the ranker held no index or one of another number of documents.
C26_FreshWhenTheCountDiffers ==
  (Scored /\ bmArgs.rebuilt) =>
    /\ Index = BuildIndex(bmArgs.results)
    /\ bmScored = ScoreWith(Index, bmArgs.results, bmArgs.query)

=============================================================================
